------------------------- MODULE OrchestratorProofs -------------------------
(* Theorems about Orchestrator, for any number of callers and sessions: its   *)
(* invariants, and the two specifications it implements.                      *)
EXTENDS Orchestrator, TLAPS

Results == {"none", "started", "stopped", "err"}
LeafStates == {"off", "up", "asked", "gone"}

\* A call that goes on or returns keeps the types of the callers' variables.
LEMMA CallTyped ==
  ASSUME TypeOK, NEW c \in Callers,
         \/ \E label \in PCs : Goto(c, label)
         \/ \E r \in Results : Return(c, r)
  PROVE  /\ pc' \in [Callers -> PCs]
         /\ sess' \in [Callers -> Sessions \cup {NoSession}]
         /\ result' \in [Callers -> Results]
BY DEF TypeOK, Goto, Return, PCs, Results

\* Setting one leaf runtime of one session keeps the type of `leaf`.
LEMMA LeafSetTyped ==
  ASSUME NEW f \in [Sessions -> [Leaves -> LeafStates]],
         NEW s \in Sessions, NEW l \in Leaves, NEW v \in LeafStates
  PROVE  [f EXCEPT ![s] = [@ EXCEPT ![l] = v]] \in [Sessions -> [Leaves -> LeafStates]]
OBVIOUS

\* Every action keeps the types; that a session is owned once is what types the
\* session a stop() takes.
LEMMA TypeStep == TypeOK /\ ExclusiveOwnership /\ [Next]_vars => TypeOK'
<1> SUFFICES ASSUME TypeOK, ExclusiveOwnership, [Next]_vars PROVE TypeOK'
  OBVIOUS
<1> USE NoSessionAssumption DEF Results
<1>1. CASE \E c \in Callers : StartCheck(c)
  <2> PICK c \in Callers : StartCheck(c)
    BY <1>1
  <2>1. pc' \in [Callers -> PCs] /\ sess' \in [Callers -> Sessions \cup {NoSession}]
        /\ result' \in [Callers -> Results]
    BY CallTyped DEF StartCheck, PCs
  <2> QED
    BY <2>1 DEF StartCheck, TypeOK
<1>2. CASE \E c \in Callers : StartPrepare(c)
  BY <1>2 DEF StartPrepare, At, ExclusiveOwnership, TypeOK, States, PCs, Owning, Building, Stopping, Leaves
<1>3. CASE \E c \in Callers : StartLeaf2(c)
  <2> PICK c \in Callers : StartLeaf2(c)
    BY <1>3
  <2>1. pc' \in [Callers -> PCs] /\ sess' \in [Callers -> Sessions \cup {NoSession}]
        /\ result' \in [Callers -> Results]
    BY CallTyped DEF StartLeaf2, StartFails, PCs, Owning, Building, Stopping
  <2>2. sess[c] \in Sessions
    BY DEF StartLeaf2, At, ExclusiveOwnership, TypeOK, Owning, Building
  <2>3. leaf' \in [Sessions -> [Leaves -> LeafStates]]
    <3>1. leaf \in [Sessions -> [Leaves -> LeafStates]]
      BY DEF TypeOK, LeafStates
    <3>2. "chain" \in Leaves /\ "up" \in LeafStates
      BY DEF Leaves, LeafStates
    <3> QED
      BY <2>2, <3>1, <3>2, LeafSetTyped DEF StartLeaf2
  <2> QED
    BY <2>1, <2>3 DEF LeafStates, StartLeaf2, TypeOK, States
<1>4. CASE \E c \in Callers : Bootstrap(c)
  <2> PICK c \in Callers : Bootstrap(c)
    BY <1>4
  <2>1. pc' \in [Callers -> PCs] /\ sess' \in [Callers -> Sessions \cup {NoSession}]
        /\ result' \in [Callers -> Results]
    BY CallTyped DEF Bootstrap, StartFails, PCs, Owning, Building, Stopping
  <2> QED
    BY <2>1 DEF Bootstrap, TypeOK
<1>5. CASE \E c \in Callers : StartLeaf1(c)
  <2> PICK c \in Callers : StartLeaf1(c)
    BY <1>5
  <2>1. pc' \in [Callers -> PCs] /\ sess' \in [Callers -> Sessions \cup {NoSession}]
        /\ result' \in [Callers -> Results]
    BY CallTyped DEF StartLeaf1, StartFails, PCs, Owning, Building, Stopping
  <2>2. sess[c] \in Sessions
    BY DEF StartLeaf1, At, ExclusiveOwnership, TypeOK, Owning, Building
  <2>3. leaf' \in [Sessions -> [Leaves -> LeafStates]]
    <3>1. leaf \in [Sessions -> [Leaves -> LeafStates]]
      BY DEF TypeOK, LeafStates
    <3>2. "tun" \in Leaves /\ "up" \in LeafStates
      BY DEF Leaves, LeafStates
    <3> QED
      BY <2>2, <3>1, <3>2, LeafSetTyped DEF StartLeaf1
  <2> QED
    BY <2>1, <2>3 DEF LeafStates, StartLeaf1, TypeOK, States
<1>6. CASE \E c \in Callers : BindDns(c)
  <2> PICK c \in Callers : BindDns(c)
    BY <1>6
  <2>1. pc' \in [Callers -> PCs] /\ sess' \in [Callers -> Sessions \cup {NoSession}]
        /\ result' \in [Callers -> Results]
    BY CallTyped DEF BindDns, StartFails, PCs, Owning, Building, Stopping
  <2> QED
    BY <2>1 DEF BindDns, TypeOK
<1>7. CASE \E c \in Callers : AdoptFails(c)
  BY <1>7 DEF AdoptFails, StartFails, Return, At, ExclusiveOwnership, TypeOK, States, PCs, Owning, Building, Stopping, Leaves
<1>8. CASE \E c \in Callers : Install(c)
  BY <1>8 DEF Install, At, ExclusiveOwnership, TypeOK, States, PCs, Owning, Building, Stopping, Leaves
<1>9. CASE \E c \in Callers : Announce(c)
  BY <1>9 DEF Announce, Return, At, ExclusiveOwnership, TypeOK, States, PCs, Owning, Building, Stopping, Leaves
<1>10. CASE \E c \in Callers : StopTake(c)
  <2> PICK c \in Callers : StopTake(c)
    BY <1>10
  <2>1. CASE running = NoSession
    BY <2>1, CallTyped DEF StopTake, TypeOK, Results
  <2>2. CASE running # NoSession
    BY <2>2 DEF StopTake, TypeOK, PCs, Owning, Stopping
  <2> QED
    BY <2>1, <2>2
<1>11. CASE \E c \in Callers : StopCancel(c)
  BY <1>11 DEF StopCancel, Goto, At, ExclusiveOwnership, TypeOK, States, PCs, Owning, Building, Stopping, Leaves
<1>12. CASE \E c \in Callers : StopDone(c)
  BY <1>12 DEF StopDone, Return, At, ExclusiveOwnership, TypeOK, States, PCs, Owning, Building, Stopping, Leaves
<1>13. CASE \E c \in Callers : StopTimeout(c)
  BY <1>13 DEF StopTimeout, Return, At, ExclusiveOwnership, TypeOK, States, PCs, Owning, Building, Stopping, Leaves
<1>14. CASE \E s \in Sessions : DrainTun(s)
  BY <1>14 DEF DrainTun, Shutdown, ExclusiveOwnership, TypeOK, States, PCs, Owning, Building, Stopping, Leaves
<1>15. CASE \E s \in Sessions : DrainChain(s)
  BY <1>15 DEF DrainChain, Shutdown, ExclusiveOwnership, TypeOK, States, PCs, Owning, Building, Stopping, Leaves
<1>16. CASE \E s \in Sessions : DrainEnd(s)
  BY <1>16 DEF DrainEnd, ExclusiveOwnership, TypeOK, States, PCs, Owning, Building, Stopping, Leaves
<1>17. CASE \E s \in Sessions, l \in Leaves : Watcher(s, l)
  BY <1>17 DEF Watcher, Shutdown, ExclusiveOwnership, TypeOK, States, PCs, Owning, Building, Stopping, Leaves
<1>18. CASE \E s \in Sessions, l \in Leaves : LeafExit(s, l)
  BY <1>18 DEF LeafExit, ExclusiveOwnership, TypeOK, States, PCs, Owning, Building, Stopping, Leaves
<1>19. CASE \E s \in Sessions : ArtiBind(s)
  BY <1>19 DEF ArtiBind, ExclusiveOwnership, TypeOK, States, PCs, Owning, Building, Stopping, Leaves
<1>20. CASE \E s \in Sessions : ArtiAcceptError(s)
  BY <1>20 DEF ArtiAcceptError, ExclusiveOwnership, TypeOK, States, PCs, Owning, Building, Stopping, Leaves
<1>21. CASE \E s \in Sessions : ArtiStop(s)
  BY <1>21 DEF ArtiStop, ExclusiveOwnership, TypeOK, States, PCs, Owning, Building, Stopping, Leaves
<1>22. CASE \E s \in Sessions : DnsRelease(s)
  BY <1>22 DEF DnsRelease, ExclusiveOwnership, TypeOK, States, PCs, Owning, Building, Stopping, Leaves
<1>23. CASE UNCHANGED vars
  BY <1>23 DEF vars, ExclusiveOwnership, TypeOK, States, PCs, Owning, Building, Stopping, Leaves
<1>24. QED
  BY <1>1, <1>2, <1>3, <1>4, <1>5, <1>6, <1>7, <1>8, <1>9, <1>10, <1>11, <1>12, <1>13, <1>14, <1>15, <1>16, <1>17, <1>18, <1>19, <1>20, <1>21, <1>22, <1>23 DEF Next, Call, Background

\* No action makes a second owner of a session: the prepare phase takes a fresh
\* one, install and take move one under the mutex, the drain lets go of it.
LEMMA OwnershipStep ==
  TypeOK /\ ExclusiveOwnership /\ [Next]_vars => ExclusiveOwnership'
<1> SUFFICES ASSUME TypeOK, ExclusiveOwnership, [Next]_vars PROVE ExclusiveOwnership'
  OBVIOUS
<1> USE NoSessionAssumption
<1>1. CASE \E c \in Callers : StartCheck(c)
  BY <1>1 DEF StartCheck, Return, Goto, At, ExclusiveOwnership, TypeOK, Owning, Building, Stopping
<1>2. CASE \E c \in Callers : StartPrepare(c)
  BY <1>2 DEF StartPrepare, At, ExclusiveOwnership, TypeOK, Owning, Building, Stopping
<1>3. CASE \E c \in Callers : StartLeaf2(c)
  <2> PICK c \in Callers : StartLeaf2(c)
    BY <1>3
  <2>1. CASE StartFails(c)
    BY <2>1 DEF StartLeaf2, StartFails, Return, At, ExclusiveOwnership, TypeOK, Owning, Building, Stopping
  <2>2. CASE Goto(c, "bootstrap")
    BY <2>2 DEF StartLeaf2, Goto, At, ExclusiveOwnership, TypeOK, Owning, Building, Stopping
  <2> QED
    BY <2>1, <2>2 DEF StartLeaf2
<1>4. CASE \E c \in Callers : Bootstrap(c)
  <2> PICK c \in Callers : Bootstrap(c)
    BY <1>4
  <2>1. CASE StartFails(c)
    BY <2>1 DEF Bootstrap, StartFails, Return, At, ExclusiveOwnership, TypeOK, Owning, Building, Stopping
  <2>2. CASE Goto(c, "leaf1")
    BY <2>2 DEF Bootstrap, Goto, At, ExclusiveOwnership, TypeOK, Owning, Building, Stopping
  <2> QED
    BY <2>1, <2>2 DEF Bootstrap
<1>5. CASE \E c \in Callers : StartLeaf1(c)
  <2> PICK c \in Callers : StartLeaf1(c)
    BY <1>5
  <2>1. CASE StartFails(c)
    BY <2>1 DEF StartLeaf1, StartFails, Return, At, ExclusiveOwnership, TypeOK, Owning, Building, Stopping
  <2>2. CASE Goto(c, "dns")
    BY <2>2 DEF StartLeaf1, Goto, At, ExclusiveOwnership, TypeOK, Owning, Building, Stopping
  <2> QED
    BY <2>1, <2>2 DEF StartLeaf1
<1>6. CASE \E c \in Callers : BindDns(c)
  <2> PICK c \in Callers : BindDns(c)
    BY <1>6
  <2>1. CASE StartFails(c)
    BY <2>1 DEF BindDns, StartFails, Return, At, ExclusiveOwnership, TypeOK, Owning, Building, Stopping
  <2>2. CASE Goto(c, "install")
    BY <2>2 DEF BindDns, Goto, At, ExclusiveOwnership, TypeOK, Owning, Building, Stopping
  <2> QED
    BY <2>1, <2>2 DEF BindDns
<1>7. CASE \E c \in Callers : AdoptFails(c)
  BY <1>7 DEF AdoptFails, StartFails, Return, At, ExclusiveOwnership, TypeOK, Owning, Building, Stopping
<1>8. CASE \E c \in Callers : Install(c)
  BY <1>8 DEF Install, At, ExclusiveOwnership, TypeOK, Owning, Building, Stopping
<1>9. CASE \E c \in Callers : Announce(c)
  BY <1>9 DEF Announce, Return, At, ExclusiveOwnership, TypeOK, Owning, Building, Stopping
<1>10. CASE \E c \in Callers : StopTake(c)
  BY <1>10 DEF StopTake, Return, At, ExclusiveOwnership, TypeOK, Owning, Building, Stopping
<1>11. CASE \E c \in Callers : StopCancel(c)
  BY <1>11 DEF StopCancel, Goto, At, ExclusiveOwnership, TypeOK, Owning, Building, Stopping
<1>12. CASE \E c \in Callers : StopDone(c)
  BY <1>12 DEF StopDone, Return, At, ExclusiveOwnership, TypeOK, Owning, Building, Stopping
<1>13. CASE \E c \in Callers : StopTimeout(c)
  BY <1>13 DEF StopTimeout, Return, At, ExclusiveOwnership, TypeOK, Owning, Building, Stopping
<1>14. CASE \E s \in Sessions : DrainTun(s)
  BY <1>14 DEF DrainTun, Shutdown, ExclusiveOwnership, TypeOK, Owning, Building, Stopping
<1>15. CASE \E s \in Sessions : DrainChain(s)
  BY <1>15 DEF DrainChain, Shutdown, ExclusiveOwnership, TypeOK, Owning, Building, Stopping
<1>16. CASE \E s \in Sessions : DrainEnd(s)
  BY <1>16 DEF DrainEnd, ExclusiveOwnership, TypeOK, Owning, Building, Stopping
<1>17. CASE \E s \in Sessions, l \in Leaves : Watcher(s, l)
  BY <1>17 DEF Watcher, Shutdown, ExclusiveOwnership, TypeOK, Owning, Building, Stopping
<1>18. CASE \E s \in Sessions, l \in Leaves : LeafExit(s, l)
  BY <1>18 DEF LeafExit, ExclusiveOwnership, TypeOK, Owning, Building, Stopping
<1>19. CASE \E s \in Sessions : ArtiBind(s)
  BY <1>19 DEF ArtiBind, ExclusiveOwnership, TypeOK, Owning, Building, Stopping
<1>20. CASE \E s \in Sessions : ArtiAcceptError(s)
  BY <1>20 DEF ArtiAcceptError, ExclusiveOwnership, TypeOK, Owning, Building, Stopping
<1>21. CASE \E s \in Sessions : ArtiStop(s)
  BY <1>21 DEF ArtiStop, ExclusiveOwnership, TypeOK, Owning, Building, Stopping
<1>22. CASE \E s \in Sessions : DnsRelease(s)
  BY <1>22 DEF DnsRelease, ExclusiveOwnership, TypeOK, Owning, Building, Stopping
<1>23. CASE UNCHANGED vars
  BY <1>23 DEF vars, ExclusiveOwnership, TypeOK, Owning, Building, Stopping
<1>24. QED
  BY <1>1, <1>2, <1>3, <1>4, <1>5, <1>6, <1>7, <1>8, <1>9, <1>10, <1>11, <1>12, <1>13, <1>14, <1>15, <1>16, <1>17, <1>18, <1>19, <1>20, <1>21, <1>22, <1>23 DEF Next, Call, Background

\* What excludes an overwrite of `running`: the DNS address has one holder, and
\* an installed session, one just taken and one about to be installed hold it.
DnsHeld ==
  /\ \A s, t \in Sessions : dns[s] = "bound" /\ dns[t] = "bound" => s = t
  /\ running # NoSession => dns[running] = "bound"
  /\ \A c \in Callers : pc[c] \in {"install", "cancel"} => dns[sess[c]] = "bound"

\* No action takes the DNS address while another session has it: bind() fails.
LEMMA DnsHeldStep ==
  TypeOK /\ ExclusiveOwnership /\ DnsHeld /\ [Next]_vars => DnsHeld'
<1> SUFFICES ASSUME TypeOK, ExclusiveOwnership, DnsHeld, [Next]_vars PROVE DnsHeld'
  OBVIOUS
<1> USE NoSessionAssumption
<1>1. CASE \E c \in Callers : StartCheck(c)
  BY <1>1 DEF StartCheck, Return, Goto, At, DnsHeld, ExclusiveOwnership, TypeOK, Owning, Building, Stopping
<1>2. CASE \E c \in Callers : StartPrepare(c)
  BY <1>2 DEF StartPrepare, At, DnsHeld, ExclusiveOwnership, TypeOK, Owning, Building, Stopping
<1>3. CASE \E c \in Callers : StartLeaf2(c)
  BY <1>3 DEF StartLeaf2, StartFails, Return, Goto, At, DnsHeld, ExclusiveOwnership, TypeOK, Owning, Building, Stopping
<1>4. CASE \E c \in Callers : Bootstrap(c)
  BY <1>4 DEF Bootstrap, StartFails, Return, Goto, At, DnsHeld, ExclusiveOwnership, TypeOK, Owning, Building, Stopping
<1>5. CASE \E c \in Callers : StartLeaf1(c)
  BY <1>5 DEF StartLeaf1, StartFails, Return, Goto, At, DnsHeld, ExclusiveOwnership, TypeOK, Owning, Building, Stopping
<1>6. CASE \E c \in Callers : BindDns(c)
  BY <1>6 DEF BindDns, StartFails, Return, Goto, DnsTaken, At, DnsHeld, ExclusiveOwnership, TypeOK, Owning, Building, Stopping
<1>7. CASE \E c \in Callers : AdoptFails(c)
  BY <1>7 DEF AdoptFails, StartFails, Return, At, DnsHeld, ExclusiveOwnership, TypeOK, Owning, Building, Stopping
<1>8. CASE \E c \in Callers : Install(c)
  BY <1>8 DEF Install, At, DnsHeld, ExclusiveOwnership, TypeOK, Owning, Building, Stopping
<1>9. CASE \E c \in Callers : Announce(c)
  BY <1>9 DEF Announce, Return, At, DnsHeld, ExclusiveOwnership, TypeOK, Owning, Building, Stopping
<1>10. CASE \E c \in Callers : StopTake(c)
  BY <1>10 DEF StopTake, Return, At, DnsHeld, ExclusiveOwnership, TypeOK, Owning, Building, Stopping
<1>11. CASE \E c \in Callers : StopCancel(c)
  BY <1>11 DEF StopCancel, Goto, At, DnsHeld, ExclusiveOwnership, TypeOK, Owning, Building, Stopping
<1>12. CASE \E c \in Callers : StopDone(c)
  BY <1>12 DEF StopDone, Return, At, DnsHeld, ExclusiveOwnership, TypeOK, Owning, Building, Stopping
<1>13. CASE \E c \in Callers : StopTimeout(c)
  BY <1>13 DEF StopTimeout, Return, At, DnsHeld, ExclusiveOwnership, TypeOK, Owning, Building, Stopping
<1>14. CASE \E s \in Sessions : DrainTun(s)
  BY <1>14 DEF DrainTun, Shutdown, DnsHeld, ExclusiveOwnership, TypeOK, Owning, Building, Stopping
<1>15. CASE \E s \in Sessions : DrainChain(s)
  BY <1>15 DEF DrainChain, Shutdown, DnsHeld, ExclusiveOwnership, TypeOK, Owning, Building, Stopping
<1>16. CASE \E s \in Sessions : DrainEnd(s)
  BY <1>16 DEF DrainEnd, DnsHeld, ExclusiveOwnership, TypeOK, Owning, Building, Stopping
<1>17. CASE \E s \in Sessions, l \in Leaves : Watcher(s, l)
  BY <1>17 DEF Watcher, Shutdown, DnsHeld, ExclusiveOwnership, TypeOK, Owning, Building, Stopping
<1>18. CASE \E s \in Sessions, l \in Leaves : LeafExit(s, l)
  BY <1>18 DEF LeafExit, DnsHeld, ExclusiveOwnership, TypeOK, Owning, Building, Stopping
<1>19. CASE \E s \in Sessions : ArtiBind(s)
  BY <1>19 DEF ArtiBind, DnsHeld, ExclusiveOwnership, TypeOK, Owning, Building, Stopping
<1>20. CASE \E s \in Sessions : ArtiAcceptError(s)
  BY <1>20 DEF ArtiAcceptError, DnsHeld, ExclusiveOwnership, TypeOK, Owning, Building, Stopping
<1>21. CASE \E s \in Sessions : ArtiStop(s)
  BY <1>21 DEF ArtiStop, DnsHeld, ExclusiveOwnership, TypeOK, Owning, Building, Stopping
<1>22. CASE \E s \in Sessions : DnsRelease(s)
  BY <1>22 DEF DnsRelease, DnsHeld, ExclusiveOwnership, TypeOK, Owning, Building, Stopping
<1>23. CASE UNCHANGED vars
  BY <1>23 DEF vars, DnsHeld, ExclusiveOwnership, TypeOK, Owning, Building, Stopping
<1>24. QED
  BY <1>1, <1>2, <1>3, <1>4, <1>5, <1>6, <1>7, <1>8, <1>9, <1>10, <1>11, <1>12, <1>13, <1>14, <1>15, <1>16, <1>17, <1>18, <1>19, <1>20, <1>21, <1>22, <1>23 DEF Next, Call, Background

\* The parts a session has at each stage of start(), and keeps.
Parts ==
  /\ \A c \in Callers :
       /\ pc[c] \in Owning \ {"leaf2"} => leaf[sess[c]]["chain"] # "off"
       /\ pc[c] \in Owning \ {"leaf2", "bootstrap"} => arti[sess[c]] # "off"
       /\ pc[c] \in {"dns", "install"} \cup Stopping => leaf[sess[c]]["tun"] # "off"
  /\ running # NoSession =>
       leaf[running]["chain"] # "off" /\ arti[running] # "off" /\ leaf[running]["tun"] # "off"
  /\ \A s \in cancelled :
       leaf[s]["chain"] # "off" /\ arti[s] # "off" /\ leaf[s]["tun"] # "off" /\ dns[s] # "off"

\* Every action keeps what a caller has started in step with where it stands.
LEMMA PartsStep ==
  TypeOK /\ ExclusiveOwnership /\ DnsHeld /\ Parts /\ [Next]_vars => Parts'
<1> SUFFICES ASSUME TypeOK, ExclusiveOwnership, DnsHeld, Parts, [Next]_vars PROVE Parts'
  OBVIOUS
<1> USE NoSessionAssumption
<1>1. CASE \E c \in Callers : StartCheck(c)
  BY <1>1 DEF StartCheck, Return, Goto, At, Parts, ExclusiveOwnership, TypeOK, Owning, Building, Stopping, Leaves
<1>2. CASE \E c \in Callers : StartPrepare(c)
  BY <1>2 DEF StartPrepare, At, Parts, ExclusiveOwnership, TypeOK, Owning, Building, Stopping, Leaves
<1>3. CASE \E c \in Callers : StartLeaf2(c)
  <2> PICK c \in Callers : StartLeaf2(c)
    BY <1>3
  <2>1. sess[c] \in Sessions
    BY DEF StartLeaf2, At, ExclusiveOwnership, TypeOK, Owning, Building
  <2>2. \A t \in Sessions, l \in Leaves : leaf[t][l] # "off" => leaf'[t][l] # "off"
    BY <2>1 DEF StartLeaf2, TypeOK, Leaves
  <2>3. \A d \in Callers \ {c} : pc'[d] = pc[d] /\ sess'[d] = sess[d]
    BY DEF StartLeaf2, StartFails, Return, Goto, TypeOK
  <2>4. \/ pc'[c] = "idle"
        \/ pc'[c] = "bootstrap" /\ sess'[c] = sess[c] /\ leaf'[sess[c]]["chain"] = "up"
    BY <2>1 DEF StartLeaf2, StartFails, Return, Goto, TypeOK, Leaves
  <2>5. \A d \in Callers : pc[d] \in Owning => sess[d] \in Sessions
    BY DEF ExclusiveOwnership, TypeOK
  <2>6. UNCHANGED <<running, cancelled, arti, dns>> /\ pc[c] = "leaf2"
    BY DEF StartLeaf2, At
  <2>7. \A d \in Callers :
          /\ pc'[d] \in Owning \ {"leaf2"} => leaf'[sess'[d]]["chain"] # "off"
          /\ pc'[d] \in Owning \ {"leaf2", "bootstrap"} => arti'[sess'[d]] # "off"
          /\ pc'[d] \in {"dns", "install"} \cup Stopping => leaf'[sess'[d]]["tun"] # "off"
    <3> TAKE d \in Callers
    <3>1. CASE d = c
      BY <2>1, <2>2, <2>4, <2>6, <3>1 DEF Parts, Owning, Building, Stopping, Leaves
    <3>2. CASE d # c
      BY <2>2, <2>3, <2>5, <2>6, <3>2 DEF Parts, Owning, Building, Stopping, Leaves
    <3> QED
      BY <3>1, <3>2
  <2> QED
    BY <2>2, <2>6, <2>7 DEF Parts, TypeOK, Leaves
<1>4. CASE \E c \in Callers : Bootstrap(c)
  BY <1>4 DEF Bootstrap, StartFails, Return, Goto, At, Parts, ExclusiveOwnership, TypeOK, Owning, Building, Stopping, Leaves
<1>5. CASE \E c \in Callers : StartLeaf1(c)
  <2> PICK c \in Callers : StartLeaf1(c)
    BY <1>5
  <2>1. sess[c] \in Sessions
    BY DEF StartLeaf1, At, ExclusiveOwnership, TypeOK, Owning, Building
  <2>2. \A t \in Sessions, l \in Leaves : leaf[t][l] # "off" => leaf'[t][l] # "off"
    BY <2>1 DEF StartLeaf1, TypeOK, Leaves
  <2>3. \A d \in Callers \ {c} : pc'[d] = pc[d] /\ sess'[d] = sess[d]
    BY DEF StartLeaf1, StartFails, Return, Goto, TypeOK
  <2>4. \/ pc'[c] = "idle"
        \/ pc'[c] = "dns" /\ sess'[c] = sess[c] /\ leaf'[sess[c]]["tun"] = "up"
    BY <2>1 DEF StartLeaf1, StartFails, Return, Goto, TypeOK, Leaves
  <2>5. \A d \in Callers : pc[d] \in Owning => sess[d] \in Sessions
    BY DEF ExclusiveOwnership, TypeOK
  <2>6. UNCHANGED <<running, cancelled, arti, dns>> /\ pc[c] = "leaf1"
    BY DEF StartLeaf1, At
  <2>7. \A d \in Callers :
          /\ pc'[d] \in Owning \ {"leaf2"} => leaf'[sess'[d]]["chain"] # "off"
          /\ pc'[d] \in Owning \ {"leaf2", "bootstrap"} => arti'[sess'[d]] # "off"
          /\ pc'[d] \in {"dns", "install"} \cup Stopping => leaf'[sess'[d]]["tun"] # "off"
    <3> TAKE d \in Callers
    <3>1. CASE d = c
      BY <2>1, <2>2, <2>4, <2>6, <3>1 DEF Parts, Owning, Building, Stopping, Leaves
    <3>2. CASE d # c
      BY <2>2, <2>3, <2>5, <2>6, <3>2 DEF Parts, Owning, Building, Stopping, Leaves
    <3> QED
      BY <3>1, <3>2
  <2> QED
    BY <2>2, <2>6, <2>7 DEF Parts, TypeOK, Leaves
<1>6. CASE \E c \in Callers : BindDns(c)
  BY <1>6 DEF BindDns, StartFails, Return, Goto, DnsTaken, At, Parts, ExclusiveOwnership, TypeOK, Owning, Building, Stopping, Leaves
<1>7. CASE \E c \in Callers : AdoptFails(c)
  BY <1>7 DEF AdoptFails, StartFails, Return, At, Parts, ExclusiveOwnership, TypeOK, Owning, Building, Stopping, Leaves
<1>8. CASE \E c \in Callers : Install(c)
  BY <1>8 DEF Install, At, Parts, ExclusiveOwnership, TypeOK, Owning, Building, Stopping, Leaves
<1>9. CASE \E c \in Callers : Announce(c)
  BY <1>9 DEF Announce, Return, At, Parts, ExclusiveOwnership, TypeOK, Owning, Building, Stopping, Leaves
<1>10. CASE \E c \in Callers : StopTake(c)
  <2> PICK c \in Callers : StopTake(c)
    BY <1>10
  <2>1. CASE running = NoSession
    BY <2>1 DEF StopTake, Return, At, Parts, ExclusiveOwnership, TypeOK, Owning, Building, Stopping, Leaves
  <2>2. CASE running # NoSession
    <3>1. pc' = [pc EXCEPT ![c] = "cancel"] /\ sess' = [sess EXCEPT ![c] = running]
          /\ running' = NoSession /\ UNCHANGED <<cancelled, leaf, arti, dns>>
      BY <2>2 DEF StopTake
    <3>2. \A d \in Callers :
            /\ pc'[d] \in Owning \ {"leaf2"} => leaf'[sess'[d]]["chain"] # "off"
            /\ pc'[d] \in Owning \ {"leaf2", "bootstrap"} => arti'[sess'[d]] # "off"
            /\ pc'[d] \in {"dns", "install"} \cup Stopping => leaf'[sess'[d]]["tun"] # "off"
      BY <2>2, <3>1 DEF Parts, TypeOK
    <3> QED
      BY <3>1, <3>2 DEF Parts
  <2> QED
    BY <2>1, <2>2
<1>11. CASE \E c \in Callers : StopCancel(c)
  BY <1>11 DEF StopCancel, Goto, At, DnsHeld, Parts, ExclusiveOwnership, TypeOK, Owning, Building, Stopping, Leaves
<1>12. CASE \E c \in Callers : StopDone(c)
  BY <1>12 DEF StopDone, Return, At, Parts, ExclusiveOwnership, TypeOK, Owning, Building, Stopping, Leaves
<1>13. CASE \E c \in Callers : StopTimeout(c)
  BY <1>13 DEF StopTimeout, Return, At, Parts, ExclusiveOwnership, TypeOK, Owning, Building, Stopping, Leaves
<1>14. CASE \E s \in Sessions : DrainTun(s)
  BY <1>14 DEF DrainTun, Shutdown, Parts, ExclusiveOwnership, TypeOK, Owning, Building, Stopping, Leaves
<1>15. CASE \E s \in Sessions : DrainChain(s)
  BY <1>15 DEF DrainChain, Shutdown, Parts, ExclusiveOwnership, TypeOK, Owning, Building, Stopping, Leaves
<1>16. CASE \E s \in Sessions : DrainEnd(s)
  BY <1>16 DEF DrainEnd, Parts, ExclusiveOwnership, TypeOK, Owning, Building, Stopping, Leaves
<1>17. CASE \E s \in Sessions, l \in Leaves : Watcher(s, l)
  BY <1>17 DEF Watcher, Shutdown, Parts, ExclusiveOwnership, TypeOK, Owning, Building, Stopping, Leaves
<1>18. CASE \E s \in Sessions, l \in Leaves : LeafExit(s, l)
  BY <1>18 DEF LeafExit, Parts, ExclusiveOwnership, TypeOK, Owning, Building, Stopping, Leaves
<1>19. CASE \E s \in Sessions : ArtiBind(s)
  BY <1>19 DEF ArtiBind, Parts, ExclusiveOwnership, TypeOK, Owning, Building, Stopping, Leaves
<1>20. CASE \E s \in Sessions : ArtiAcceptError(s)
  BY <1>20 DEF ArtiAcceptError, Parts, ExclusiveOwnership, TypeOK, Owning, Building, Stopping, Leaves
<1>21. CASE \E s \in Sessions : ArtiStop(s)
  BY <1>21 DEF ArtiStop, Parts, ExclusiveOwnership, TypeOK, Owning, Building, Stopping, Leaves
<1>22. CASE \E s \in Sessions : DnsRelease(s)
  BY <1>22 DEF DnsRelease, Parts, ExclusiveOwnership, TypeOK, Owning, Building, Stopping, Leaves
<1>23. CASE UNCHANGED vars
  BY <1>23 DEF vars, Parts, ExclusiveOwnership, TypeOK, Owning, Building, Stopping, Leaves
<1>24. QED
  BY <1>1, <1>2, <1>3, <1>4, <1>5, <1>6, <1>7, <1>8, <1>9, <1>10, <1>11, <1>12, <1>13, <1>14, <1>15, <1>16, <1>17, <1>18, <1>19, <1>20, <1>21, <1>22, <1>23 DEF Next, Call, Background

\* The inductive invariant.
IInv == TypeOK /\ ExclusiveOwnership /\ DnsHeld /\ Parts

\* The invariant holds before the first call.
LEMMA InitIInv == Init => IInv
<1> SUFFICES ASSUME Init PROVE IInv
  OBVIOUS
<1> USE NoSessionAssumption DEF Init
<1>1. TypeOK
  BY DEF TypeOK, States, PCs
<1>2. ExclusiveOwnership /\ DnsHeld /\ Parts
  BY DEF ExclusiveOwnership, DnsHeld, Parts, Owning, Building, Stopping
<1> QED
  BY <1>1, <1>2 DEF IInv

\* The inductive invariant holds always.
THEOREM Invariance == Spec => []IInv
<1>1. IInv /\ [Next]_vars => IInv'
  BY TypeStep, OwnershipStep, DnsHeldStep, PartsStep DEF IInv
<1> QED
  BY InitIInv, <1>1, PTL DEF Spec

\* Every variable keeps its type.
THEOREM TypeCorrect == Spec => []TypeOK
BY Invariance, PTL DEF IInv

\* A session is owned once, and only its owner, a stop(), cancels its token.
THEOREM OwnedOnce == Spec => []ExclusiveOwnership
BY Invariance, PTL DEF IInv

\* `running` is assigned only when it is None, though nobody tests it then.
THEOREM NeverOverwritten == Spec => []NoOverwrite
<1>1. IInv => NoOverwrite
  BY DEF IInv, NoOverwrite, TypeOK, ExclusiveOwnership, DnsHeld, Owning, Building
<1> QED
  BY Invariance, <1>1, PTL

\* An installed, taken or cancelled session had every part started.
THEOREM CompleteSessions == Spec => []InstalledIsComplete
<1>1. IInv => InstalledIsComplete
  <2> SUFFICES ASSUME IInv, NEW s \in Sessions,
                      s = running \/ s \in cancelled \/ Taken(s)
               PROVE  /\ \A l \in Leaves : leaf[s][l] # "off"
                      /\ arti[s] # "off"
                      /\ dns[s] \in (IF s \in cancelled THEN {"bound", "freed"} ELSE {"bound"})
    BY DEF InstalledIsComplete
  <2> USE NoSessionAssumption DEF IInv, TypeOK, ExclusiveOwnership, DnsHeld, Parts, Leaves
  <2>1. CASE s = running
    BY <2>1
  <2>2. CASE s \in cancelled
    BY <2>2
  <2>3. CASE Taken(s) /\ s \notin cancelled
    BY <2>3 DEF Taken, Owning, Stopping, Building
  <2> QED
    BY <2>1, <2>2, <2>3
<1> QED
  BY Invariance, <1>1, PTL

\* What a step does not do to a session whose token is cancelled.
NoRestart ==
  \A s \in cancelled :
    /\ s \in cancelled'
    /\ running' # s
    /\ \A l \in Leaves : leaf'[s][l] = "up" => leaf[s][l] = "up"
    /\ arti'[s] = "binding" => arti[s] = "binding"
    /\ dns'[s] = "bound" => dns[s] = "bound"

\* A cancelled session never comes back, and nothing of it is started again.
THEOREM CancelledForGood == Spec => NoResurrection
<1>1. TypeOK /\ ExclusiveOwnership /\ [Next]_vars => NoRestart
  <2> SUFFICES ASSUME TypeOK, ExclusiveOwnership, [Next]_vars PROVE NoRestart
    OBVIOUS
  <2> USE NoSessionAssumption DEF NoRestart
  <2>1. CASE \E c \in Callers : StartCheck(c)
    BY <2>1 DEF StartCheck, Return, Goto, At, ExclusiveOwnership, TypeOK, Owning, Building, Stopping, Leaves
  <2>2. CASE \E c \in Callers : StartPrepare(c)
    BY <2>2 DEF StartPrepare, At, ExclusiveOwnership, TypeOK, Owning, Building, Stopping, Leaves
  <2>3. CASE \E c \in Callers : StartLeaf2(c)
    <3> PICK c \in Callers : StartLeaf2(c)
      BY <2>3
    <3>1. sess[c] \notin cancelled
      BY DEF StartLeaf2, At, ExclusiveOwnership
    <3>2. \A s \in Sessions : s # sess[c] => leaf'[s] = leaf[s]
      BY DEF StartLeaf2, TypeOK
    <3> QED
      BY <3>1, <3>2 DEF StartLeaf2, TypeOK, ExclusiveOwnership
  <2>4. CASE \E c \in Callers : Bootstrap(c)
    BY <2>4 DEF Bootstrap, StartFails, Return, Goto, At, ExclusiveOwnership, TypeOK, Owning, Building, Stopping, Leaves
  <2>5. CASE \E c \in Callers : StartLeaf1(c)
    BY <2>5 DEF StartLeaf1, StartFails, Return, Goto, At, ExclusiveOwnership, TypeOK, Owning, Building, Stopping, Leaves
  <2>6. CASE \E c \in Callers : BindDns(c)
    BY <2>6 DEF BindDns, StartFails, Return, Goto, DnsTaken, At, ExclusiveOwnership, TypeOK, Owning, Building, Stopping, Leaves
  <2>7. CASE \E c \in Callers : AdoptFails(c)
    BY <2>7 DEF AdoptFails, StartFails, Return, At, ExclusiveOwnership, TypeOK, Owning, Building, Stopping, Leaves
  <2>8. CASE \E c \in Callers : Install(c)
    BY <2>8 DEF Install, At, ExclusiveOwnership, TypeOK, Owning, Building, Stopping, Leaves
  <2>9. CASE \E c \in Callers : Announce(c)
    BY <2>9 DEF Announce, Return, At, ExclusiveOwnership, TypeOK, Owning, Building, Stopping, Leaves
  <2>10. CASE \E c \in Callers : StopTake(c)
    BY <2>10 DEF StopTake, Return, At, ExclusiveOwnership, TypeOK, Owning, Building, Stopping, Leaves
  <2>11. CASE \E c \in Callers : StopCancel(c)
    BY <2>11 DEF StopCancel, Goto, At, ExclusiveOwnership, TypeOK, Owning, Building, Stopping, Leaves
  <2>12. CASE \E c \in Callers : StopDone(c)
    BY <2>12 DEF StopDone, Return, At, ExclusiveOwnership, TypeOK, Owning, Building, Stopping, Leaves
  <2>13. CASE \E c \in Callers : StopTimeout(c)
    BY <2>13 DEF StopTimeout, Return, At, ExclusiveOwnership, TypeOK, Owning, Building, Stopping, Leaves
  <2>14. CASE \E s \in Sessions : DrainTun(s)
    BY <2>14 DEF DrainTun, Shutdown, ExclusiveOwnership, TypeOK, Owning, Building, Stopping, Leaves
  <2>15. CASE \E s \in Sessions : DrainChain(s)
    BY <2>15 DEF DrainChain, Shutdown, ExclusiveOwnership, TypeOK, Owning, Building, Stopping, Leaves
  <2>16. CASE \E s \in Sessions : DrainEnd(s)
    BY <2>16 DEF DrainEnd, ExclusiveOwnership, TypeOK, Owning, Building, Stopping, Leaves
  <2>17. CASE \E s \in Sessions, l \in Leaves : Watcher(s, l)
    BY <2>17 DEF Watcher, Shutdown, ExclusiveOwnership, TypeOK, Owning, Building, Stopping, Leaves
  <2>18. CASE \E s \in Sessions, l \in Leaves : LeafExit(s, l)
    BY <2>18 DEF LeafExit, ExclusiveOwnership, TypeOK, Owning, Building, Stopping, Leaves
  <2>19. CASE \E s \in Sessions : ArtiBind(s)
    BY <2>19 DEF ArtiBind, ExclusiveOwnership, TypeOK, Owning, Building, Stopping, Leaves
  <2>20. CASE \E s \in Sessions : ArtiAcceptError(s)
    BY <2>20 DEF ArtiAcceptError, ExclusiveOwnership, TypeOK, Owning, Building, Stopping, Leaves
  <2>21. CASE \E s \in Sessions : ArtiStop(s)
    BY <2>21 DEF ArtiStop, ExclusiveOwnership, TypeOK, Owning, Building, Stopping, Leaves
  <2>22. CASE \E s \in Sessions : DnsRelease(s)
    BY <2>22 DEF DnsRelease, ExclusiveOwnership, TypeOK, Owning, Building, Stopping, Leaves
  <2>23. CASE UNCHANGED vars
    BY <2>23 DEF vars, ExclusiveOwnership, TypeOK, Owning, Building, Stopping, Leaves
  <2>24. QED
    BY <2>1, <2>2, <2>3, <2>4, <2>5, <2>6, <2>7, <2>8, <2>9, <2>10, <2>11, <2>12, <2>13, <2>14, <2>15, <2>16, <2>17, <2>18, <2>19, <2>20, <2>21, <2>22, <2>23 DEF Next, Call, Background
<1>2. IInv /\ [Next]_vars => [NoRestart]_vars
  BY <1>1 DEF IInv
<1> QED
  BY Invariance, <1>2, PTL DEF Spec, NoResurrection, NoRestart

\* A session abandoned while its DNS socket is bound.
Leaked(s) == Abandoned(s) /\ dns[s] = "bound"

\* An abandoned session stays abandoned, and keeps the socket it has.
LEMMA LeakStays ==
  ASSUME TypeOK, ExclusiveOwnership, [Next]_vars, NEW s \in Sessions, Leaked(s)
  PROVE  Leaked(s)'
<1> USE NoSessionAssumption
<1>0. \A c \in Callers : sess[c] # s
  BY DEF Leaked, Abandoned, Live, Taken, ExclusiveOwnership, Owning
<1> USE <1>0 DEF Leaked
<1>1. CASE \E c \in Callers : StartCheck(c)
  BY <1>1 DEF StartCheck, Return, Goto, At, Abandoned, Live, Taken, ExclusiveOwnership, TypeOK, Owning, Building, Stopping
<1>2. CASE \E c \in Callers : StartPrepare(c)
  BY <1>2 DEF StartPrepare, At, Abandoned, Live, Taken, ExclusiveOwnership, TypeOK, Owning, Building, Stopping
<1>3. CASE \E c \in Callers : StartLeaf2(c)
  BY <1>3 DEF StartLeaf2, StartFails, Return, Goto, At, Abandoned, Live, Taken, ExclusiveOwnership, TypeOK, Owning, Building, Stopping
<1>4. CASE \E c \in Callers : Bootstrap(c)
  BY <1>4 DEF Bootstrap, StartFails, Return, Goto, At, Abandoned, Live, Taken, ExclusiveOwnership, TypeOK, Owning, Building, Stopping
<1>5. CASE \E c \in Callers : StartLeaf1(c)
  BY <1>5 DEF StartLeaf1, StartFails, Return, Goto, At, Abandoned, Live, Taken, ExclusiveOwnership, TypeOK, Owning, Building, Stopping
<1>6. CASE \E c \in Callers : BindDns(c)
  BY <1>6 DEF BindDns, StartFails, Return, Goto, DnsTaken, At, Abandoned, Live, Taken, ExclusiveOwnership, TypeOK, Owning, Building, Stopping
<1>7. CASE \E c \in Callers : AdoptFails(c)
  BY <1>7 DEF AdoptFails, StartFails, Return, At, Abandoned, Live, Taken, ExclusiveOwnership, TypeOK, Owning, Building, Stopping
<1>8. CASE \E c \in Callers : Install(c)
  BY <1>8 DEF Install, At, Abandoned, Live, Taken, ExclusiveOwnership, TypeOK, Owning, Building, Stopping
<1>9. CASE \E c \in Callers : Announce(c)
  BY <1>9 DEF Announce, Return, At, Abandoned, Live, Taken, ExclusiveOwnership, TypeOK, Owning, Building, Stopping
<1>10. CASE \E c \in Callers : StopTake(c)
  BY <1>10 DEF StopTake, Return, At, Abandoned, Live, Taken, ExclusiveOwnership, TypeOK, Owning, Building, Stopping
<1>11. CASE \E c \in Callers : StopCancel(c)
  BY <1>11 DEF StopCancel, Goto, At, Abandoned, Live, Taken, ExclusiveOwnership, TypeOK, Owning, Building, Stopping
<1>12. CASE \E c \in Callers : StopDone(c)
  BY <1>12 DEF StopDone, Return, At, Abandoned, Live, Taken, ExclusiveOwnership, TypeOK, Owning, Building, Stopping
<1>13. CASE \E c \in Callers : StopTimeout(c)
  BY <1>13 DEF StopTimeout, Return, At, Abandoned, Live, Taken, ExclusiveOwnership, TypeOK, Owning, Building, Stopping
<1>14. CASE \E t \in Sessions : DrainTun(t)
  BY <1>14 DEF DrainTun, Shutdown, Abandoned, Live, Taken, ExclusiveOwnership, TypeOK, Owning, Building, Stopping
<1>15. CASE \E t \in Sessions : DrainChain(t)
  BY <1>15 DEF DrainChain, Shutdown, Abandoned, Live, Taken, ExclusiveOwnership, TypeOK, Owning, Building, Stopping
<1>16. CASE \E t \in Sessions : DrainEnd(t)
  BY <1>16 DEF DrainEnd, Abandoned, Live, Taken, ExclusiveOwnership, TypeOK, Owning, Building, Stopping
<1>17. CASE \E t \in Sessions, l \in Leaves : Watcher(t, l)
  BY <1>17 DEF Watcher, Shutdown, Abandoned, Live, Taken, ExclusiveOwnership, TypeOK, Owning, Building, Stopping
<1>18. CASE \E t \in Sessions, l \in Leaves : LeafExit(t, l)
  BY <1>18 DEF LeafExit, Abandoned, Live, Taken, ExclusiveOwnership, TypeOK, Owning, Building, Stopping
<1>19. CASE \E t \in Sessions : ArtiBind(t)
  BY <1>19 DEF ArtiBind, Abandoned, Live, Taken, ExclusiveOwnership, TypeOK, Owning, Building, Stopping
<1>20. CASE \E t \in Sessions : ArtiAcceptError(t)
  BY <1>20 DEF ArtiAcceptError, Abandoned, Live, Taken, ExclusiveOwnership, TypeOK, Owning, Building, Stopping
<1>21. CASE \E t \in Sessions : ArtiStop(t)
  BY <1>21 DEF ArtiStop, Abandoned, Live, Taken, ExclusiveOwnership, TypeOK, Owning, Building, Stopping
<1>22. CASE \E t \in Sessions : DnsRelease(t)
  BY <1>22 DEF DnsRelease, Abandoned, Live, Taken, ExclusiveOwnership, TypeOK, Owning, Building, Stopping
<1>23. CASE UNCHANGED vars
  BY <1>23 DEF vars, Abandoned, Live, Taken, ExclusiveOwnership, TypeOK, Owning, Building, Stopping
<1>24. QED
  BY <1>1, <1>2, <1>3, <1>4, <1>5, <1>6, <1>7, <1>8, <1>9, <1>10, <1>11, <1>12, <1>13, <1>14, <1>15, <1>16, <1>17, <1>18, <1>19, <1>20, <1>21, <1>22, <1>23 DEF Next, Call, Background

\* With the address leaked no start() succeeds, ever.
THEOREM LeakIsFatal == Spec => LeakBlocksStarts
<1> DEFINE Blocks == (\E s \in Sessions : Abandoned(s) /\ dns[s] = "bound") =>
                       /\ running' = NoSession
                       /\ \E s \in Sessions : Abandoned(s)' /\ dns'[s] = "bound"
<1>1. IInv /\ IInv' /\ [Next]_vars => Blocks
  <2> SUFFICES ASSUME IInv, IInv', [Next]_vars, NEW s \in Sessions, Leaked(s)
               PROVE  running' = NoSession /\ Leaked(s)'
    BY DEF Leaked
  <2>1. Leaked(s)'
    BY LeakStays DEF IInv
  <2>2. running' = NoSession
    BY <2>1 DEF IInv, DnsHeld, TypeOK, Leaked, Abandoned
  <2> QED
    BY <2>1, <2>2
<1>2. IInv /\ IInv' /\ [Next]_vars => [Blocks]_vars
  BY <1>1
<1> QED
  BY Invariance, <1>2, PTL DEF Spec, LeakBlocksStarts

-----------------------------------------------------------------------------
(* Orchestrator implements SessionLife, for any number of callers and         *)
(* sessions: every step moves one session along its life cycle, or none.      *)

lifeMap == [s \in Sessions |-> LifeOf(s)]

\* What LifeOf says of a session, by who owns it.
LifeFacts ==
  \A s \in Sessions :
    /\ s \notin used => LifeOf(s) = "fresh"
    /\ running = s => LifeOf(s) = "installed"
    /\ \A c \in Callers : sess[c] = s =>
         LifeOf(s) = IF pc[c] \in Building THEN "building" ELSE "stopping"
    /\ s \in used /\ s # running /\ (\A c \in Callers : sess[c] # s) =>
         LifeOf(s) = IF s \in cancelled THEN "ended" ELSE "abandoned"

\* The phase of a session, read off who owns it.
LEMMA LifeByOwner == TypeOK /\ ExclusiveOwnership => LifeFacts
<1> SUFFICES ASSUME TypeOK, ExclusiveOwnership, NEW s \in Sessions
             PROVE  /\ s \notin used => LifeOf(s) = "fresh"
                    /\ running = s => LifeOf(s) = "installed"
                    /\ \A c \in Callers : sess[c] = s =>
                         LifeOf(s) = IF pc[c] \in Building THEN "building" ELSE "stopping"
                    /\ s \in used /\ s # running /\ (\A c \in Callers : sess[c] # s) =>
                         LifeOf(s) = IF s \in cancelled THEN "ended" ELSE "abandoned"
  BY DEF LifeFacts
<1> USE NoSessionAssumption DEF TypeOK, ExclusiveOwnership
<1>1. s \notin used => LifeOf(s) = "fresh"
  BY DEF LifeOf, Live, Taken
<1>2. running = s => LifeOf(s) = "installed"
  BY DEF LifeOf, Live, Taken
<1>3. ASSUME NEW c \in Callers, sess[c] = s
      PROVE  LifeOf(s) = IF pc[c] \in Building THEN "building" ELSE "stopping"
  <2>1. s \in used /\ s # running /\ pc[c] \in Owning
    BY <1>3
  <2>2. CASE pc[c] \in Building
    BY <1>3, <2>1, <2>2 DEF LifeOf, Live, Taken, Building, Stopping
  <2>3. CASE pc[c] \in Stopping
    BY <1>3, <2>1, <2>3 DEF LifeOf, Live, Taken, Building, Stopping
  <2> QED
    BY <2>1, <2>2, <2>3 DEF Owning, Building, Stopping
<1>4. s \in used /\ s # running /\ (\A c \in Callers : sess[c] # s) =>
         LifeOf(s) = IF s \in cancelled THEN "ended" ELSE "abandoned"
  BY DEF LifeOf, Live, Taken
<1> QED
  BY <1>1, <1>2, <1>3, <1>4

\* A session whose ownership a step leaves alone stays in its phase.
LEMMA LifeFrame ==
  ASSUME NEW t \in Sessions,
         t \in used' <=> t \in used, t \in cancelled' <=> t \in cancelled,
         running' = t <=> running = t, Live(t)' <=> Live(t), Taken(t)' <=> Taken(t)
  PROVE  LifeOf(t)' = LifeOf(t)
BY DEF LifeOf

\* A step of caller c leaves alone the sessions c neither drops nor takes.
LEMMA CallerFrame ==
  ASSUME TypeOK, NEW c \in Callers, NEW x, NEW y,
         pc' = [pc EXCEPT ![c] = x], sess' = [sess EXCEPT ![c] = y],
         NEW t \in Sessions, t # sess[c], t # y
  PROVE  (Live(t)' <=> Live(t)) /\ (Taken(t)' <=> Taken(t))
BY DEF Live, Taken, TypeOK

\* One session moves and the others stay: a step of the life cycle.
LEMMA OneMoves ==
  ASSUME NEW s \in Sessions, NEW from, NEW to,
         LifeOf(s) = from, LifeOf(s)' = to,
         \A t \in Sessions : t # s => LifeOf(t)' = LifeOf(t)
  PROVE  /\ lifeMap[s] = from /\ lifeMap'[s] = to
         /\ lifeMap' = [lifeMap EXCEPT ![s] = lifeMap'[s]]
BY DEF lifeMap

\* No session is alive at first.
LEMMA LifeInit == Init => Life!Init
BY NoSessionAssumption DEF Init, Life!Init, LifeOf, Live, Taken, Building, Stopping

\* Facts about the step and its end state that every case below uses.
LEMMA LifeStep ==
  ASSUME IInv, IInv', NoOverwrite, LifeFacts, LifeFacts', [Next]_vars
  PROVE  [Life!Next]_lifeMap
<1> USE NoSessionAssumption
<1> DEFINE Same == \A t \in Sessions : LifeOf(t)' = LifeOf(t)
           Moves(s, from, to) == /\ LifeOf(s) = from /\ LifeOf(s)' = to
                                 /\ \A t \in Sessions : t # s => LifeOf(t)' = LifeOf(t)
<1>same. Same => UNCHANGED lifeMap
  BY DEF lifeMap
<1>move. ASSUME NEW s \in Sessions,
                \/ Moves(s, "fresh", "building") \/ Moves(s, "building", "abandoned")
                \/ Moves(s, "installed", "stopping") \/ Moves(s, "stopping", "ended")
         PROVE  Life!Next
  BY <1>move, OneMoves DEF Life!Next, Life!Move, Life!Moves, lifeMap
\* A step that changes no session's owner and cancels nothing.
<1>bg. ASSUME UNCHANGED <<running, pc, sess, used>>, cancelled' = cancelled
       PROVE  Same
  BY <1>bg, LifeFrame DEF Live, Taken
\* The caller goes on with the session it has, within start() or within stop().
<1>goto. ASSUME NEW c \in Callers, NEW label, Goto(c, label), pc[c] \in Building, label \in Building,
                UNCHANGED <<running, used, cancelled>>
         PROVE  Same
  <2> SUFFICES ASSUME NEW t \in Sessions PROVE LifeOf(t)' = LifeOf(t)
    OBVIOUS
  <2>1. (Live(t)' <=> Live(t)) /\ (Taken(t)' <=> Taken(t))
    BY <1>goto DEF Goto, Live, Taken, IInv, TypeOK, Building, Stopping
  <2> QED
    BY <1>goto, <2>1, LifeFrame
\* A start() fails: its session is abandoned.
<1>fail. ASSUME NEW c \in Callers, StartFails(c), pc[c] \in Building,
                UNCHANGED <<running, used, cancelled>>
         PROVE  Life!Next
  <2>0. sess[c] \in Sessions
    BY <1>fail DEF IInv, TypeOK, ExclusiveOwnership, Owning, Building
  <2> PICK s \in Sessions : sess[c] = s
    BY <2>0
  <2>1. s \in used /\ s # running /\ s \notin cancelled
    BY <1>fail DEF IInv, ExclusiveOwnership, Owning, Building
  <2>2. LifeOf(s) = "building"
    BY <1>fail DEF LifeFacts, Building
  <2>3. \A d \in Callers : sess'[d] # s
    BY <1>fail DEF StartFails, Return, IInv, TypeOK, ExclusiveOwnership
  <2>4. LifeOf(s)' = "abandoned"
    BY <1>fail, <2>1, <2>3 DEF LifeFacts
  <2>5. \A t \in Sessions : t # s => LifeOf(t)' = LifeOf(t)
    <3> SUFFICES ASSUME NEW t \in Sessions, t # s PROVE LifeOf(t)' = LifeOf(t)
      OBVIOUS
    <3>1. /\ pc' = [pc EXCEPT ![c] = "idle"] /\ sess' = [sess EXCEPT ![c] = NoSession]
          /\ t # sess[c] /\ t # NoSession
      BY <1>fail DEF StartFails, Return
    <3>2. (Live(t)' <=> Live(t)) /\ (Taken(t)' <=> Taken(t))
      BY <3>1, CallerFrame DEF IInv
    <3> QED
      BY <1>fail, <3>2, LifeFrame
  <2> QED
    BY <2>2, <2>4, <2>5, <1>move
\* stop() returns: its session has ended.
<1>end. ASSUME NEW c \in Callers, Return(c, "stopped"), pc[c] = "wait",
               UNCHANGED <<running, used, cancelled>>
        PROVE  Life!Next
  <2>0. sess[c] \in Sessions
    BY <1>end DEF IInv, TypeOK, ExclusiveOwnership, Owning, Stopping
  <2> PICK s \in Sessions : sess[c] = s
    BY <2>0
  <2>1. s \in used /\ s # running /\ s \in cancelled
    BY <1>end DEF IInv, ExclusiveOwnership, Owning, Stopping
  <2>2. LifeOf(s) = "stopping"
    BY <1>end DEF LifeFacts, Building
  <2>3. \A d \in Callers : sess'[d] # s
    BY <1>end DEF Return, IInv, TypeOK, ExclusiveOwnership
  <2>4. LifeOf(s)' = "ended"
    BY <1>end, <2>1, <2>3 DEF LifeFacts
  <2>5. \A t \in Sessions : t # s => LifeOf(t)' = LifeOf(t)
    BY <1>end, CallerFrame, LifeFrame DEF Return, IInv
  <2> QED
    BY <2>2, <2>4, <2>5, <1>move
<1>1. ASSUME NEW c \in Callers, StartCheck(c) PROVE Same
  <2> SUFFICES ASSUME NEW t \in Sessions PROVE LifeOf(t)' = LifeOf(t)
    OBVIOUS
  <2>1. (Live(t)' <=> Live(t)) /\ (Taken(t)' <=> Taken(t))
    BY <1>1 DEF StartCheck, At, Goto, Return, Live, Taken, IInv, TypeOK, ExclusiveOwnership,
                Owning, Building, Stopping
  <2> QED
    BY <1>1, <2>1, LifeFrame DEF StartCheck
<1>2. ASSUME NEW c \in Callers, StartPrepare(c) PROVE Life!Next
  <2> PICK s \in Sessions \ used :
             used' = used \cup {s} /\ sess' = [sess EXCEPT ![c] = s]
    BY <1>2 DEF StartPrepare
  <2>1. pc' = [pc EXCEPT ![c] = "leaf2"] /\ UNCHANGED <<running, cancelled>>
    BY <1>2 DEF StartPrepare
  <2>2. LifeOf(s) = "fresh"
    BY DEF LifeFacts
  <2>3. pc'[c] = "leaf2" /\ sess'[c] = s
    BY <2>1 DEF IInv, TypeOK
  <2>4. LifeOf(s)' = "building"
    BY <2>3 DEF LifeFacts, Building
  <2>5. sess[c] = NoSession
    BY <1>2 DEF StartPrepare, At, IInv, ExclusiveOwnership, Owning, Building, Stopping
  <2>6. \A t \in Sessions : t # s => LifeOf(t)' = LifeOf(t)
    BY <2>1, <2>5, CallerFrame, LifeFrame DEF IInv
  <2> QED
    BY <2>2, <2>4, <2>6, <1>move
<1>3. ASSUME NEW c \in Callers, StartLeaf2(c) PROVE Life!Next \/ Same
  <2>1. CASE StartFails(c)
    BY <1>3, <2>1, <1>fail DEF StartLeaf2, At, Building
  <2>2. CASE Goto(c, "bootstrap")
    BY <1>3, <2>2, <1>goto DEF StartLeaf2, At, Building
  <2> QED
    BY <1>3, <2>1, <2>2 DEF StartLeaf2
<1>4. ASSUME NEW c \in Callers, Bootstrap(c) PROVE Life!Next \/ Same
  <2>1. CASE StartFails(c)
    BY <1>4, <2>1, <1>fail DEF Bootstrap, At, Building
  <2>2. CASE Goto(c, "leaf1")
    BY <1>4, <2>2, <1>goto DEF Bootstrap, At, Building
  <2> QED
    BY <1>4, <2>1, <2>2 DEF Bootstrap
<1>5. ASSUME NEW c \in Callers, StartLeaf1(c) PROVE Life!Next \/ Same
  <2>1. CASE StartFails(c)
    BY <1>5, <2>1, <1>fail DEF StartLeaf1, At, Building
  <2>2. CASE Goto(c, "dns")
    BY <1>5, <2>2, <1>goto DEF StartLeaf1, At, Building
  <2> QED
    BY <1>5, <2>1, <2>2 DEF StartLeaf1
<1>6. ASSUME NEW c \in Callers, BindDns(c) PROVE Life!Next \/ Same
  <2>1. CASE StartFails(c)
    BY <1>6, <2>1, <1>fail DEF BindDns, At, Building
  <2>2. CASE Goto(c, "install")
    BY <1>6, <2>2, <1>goto DEF BindDns, At, Building
  <2> QED
    BY <1>6, <2>1, <2>2 DEF BindDns
<1>7. ASSUME NEW c \in Callers, AdoptFails(c) PROVE Life!Next
  BY <1>7, <1>fail DEF AdoptFails, At, Building
<1>8. ASSUME NEW c \in Callers, Install(c) PROVE Life!Next
  <2>0. sess[c] \in Sessions
    BY <1>8 DEF Install, At, IInv, TypeOK, ExclusiveOwnership, Owning, Building
  <2> PICK s \in Sessions : sess[c] = s
    BY <2>0
  <2>1. running' = s /\ sess' = [sess EXCEPT ![c] = NoSession]
        /\ pc' = [pc EXCEPT ![c] = "announce"] /\ UNCHANGED <<used, cancelled>> /\ pc[c] = "install"
    BY <1>8 DEF Install, At
  <2>2. running = NoSession
    BY <2>1 DEF NoOverwrite
  <2>3. LifeOf(s) = "building" /\ LifeOf(s)' = "installed"
    BY <2>1 DEF LifeFacts, Building
  <2>4. \A t \in Sessions : t # s => LifeOf(t)' = LifeOf(t)
    BY <2>1, <2>2, CallerFrame, LifeFrame DEF IInv
  <2>5. \A t \in Sessions : LifeOf(t) # "installed"
    <3> SUFFICES ASSUME NEW t \in Sessions PROVE LifeOf(t) # "installed"
      OBVIOUS
    <3> QED
      BY <2>2 DEF LifeFacts
  <2> QED
    BY <2>3, <2>4, <2>5, OneMoves DEF Life!Next, Life!Move, Life!Moves, lifeMap
<1>9. ASSUME NEW c \in Callers, Announce(c) PROVE Same
  <2> SUFFICES ASSUME NEW t \in Sessions PROVE LifeOf(t)' = LifeOf(t)
    OBVIOUS
  <2>1. (Live(t)' <=> Live(t)) /\ (Taken(t)' <=> Taken(t))
    BY <1>9 DEF Announce, At, Return, Live, Taken, IInv, TypeOK, ExclusiveOwnership,
                Owning, Building, Stopping
  <2> QED
    BY <1>9, <2>1, LifeFrame DEF Announce
<1>10. ASSUME NEW c \in Callers, StopTake(c) PROVE Life!Next \/ Same
  <2>1. CASE running = NoSession
    <3> SUFFICES ASSUME NEW t \in Sessions PROVE LifeOf(t)' = LifeOf(t)
      OBVIOUS
    <3>1. (Live(t)' <=> Live(t)) /\ (Taken(t)' <=> Taken(t))
      BY <1>10, <2>1 DEF StopTake, At, Return, Live, Taken, IInv, TypeOK, ExclusiveOwnership,
                         Owning, Building, Stopping
    <3> QED
      BY <1>10, <2>1, <3>1, LifeFrame DEF StopTake
  <2>2. CASE running # NoSession
    <3>0. running \in Sessions
      BY <2>2 DEF IInv, TypeOK
    <3> PICK s \in Sessions : running = s
      BY <3>0
    <3>1. running' = NoSession /\ sess' = [sess EXCEPT ![c] = s]
          /\ pc' = [pc EXCEPT ![c] = "cancel"] /\ UNCHANGED <<used, cancelled>>
          /\ sess[c] = NoSession
      BY <1>10, <2>2 DEF StopTake, At, IInv, ExclusiveOwnership, Owning, Building, Stopping
    <3>3. pc'[c] = "cancel" /\ sess'[c] = s
      BY <3>1 DEF IInv, TypeOK
    <3>4. LifeOf(s) = "installed" /\ LifeOf(s)' = "stopping"
      BY <3>3 DEF LifeFacts, Building
    <3>5. \A t \in Sessions : t # s => LifeOf(t)' = LifeOf(t)
      BY <3>1, CallerFrame, LifeFrame DEF IInv
    <3> QED
      BY <3>4, <3>5, <1>move
  <2> QED
    BY <2>1, <2>2
<1>11. ASSUME NEW c \in Callers, StopCancel(c) PROVE Same
  <2>1. cancelled' = cancelled \cup {sess[c]} /\ pc' = [pc EXCEPT ![c] = "wait"]
        /\ UNCHANGED <<sess, running, used>> /\ pc[c] = "cancel"
    BY <1>11 DEF StopCancel, Goto, At
  <2> SUFFICES ASSUME NEW t \in Sessions PROVE LifeOf(t)' = LifeOf(t)
    OBVIOUS
  <2>2. CASE t = sess[c]
    <3>1. sess'[c] = t /\ pc'[c] = "wait"
      BY <2>1, <2>2 DEF IInv, TypeOK
    <3> QED
      BY <2>1, <2>2, <3>1 DEF LifeFacts, Building
  <2>3. CASE t # sess[c]
    <3>1. (Live(t)' <=> Live(t)) /\ (Taken(t)' <=> Taken(t))
      BY <2>1, <2>3 DEF Live, Taken, IInv, TypeOK
    <3> QED
      BY <2>1, <2>3, <3>1, LifeFrame
  <2> QED
    BY <2>2, <2>3
<1>12. ASSUME NEW c \in Callers, StopDone(c) PROVE Life!Next
  BY <1>12, <1>end DEF StopDone, At
<1>13. ASSUME NEW c \in Callers, StopTimeout(c) PROVE Life!Next
  BY <1>13, <1>end DEF StopTimeout, At
<1>14. ASSUME NEW s \in Sessions, Background(s) PROVE Same
  <2>1. CASE DrainChain(s)
    <3>1. s \in cancelled
      BY <2>1 DEF DrainChain, IInv, ExclusiveOwnership
    <3> QED
      BY <2>1, <3>1, <1>bg DEF DrainChain
  <2>2. CASE ~DrainChain(s)
    BY <1>14, <2>2, <1>bg DEF Background, DrainTun, DrainEnd, Watcher, LeafExit, ArtiBind,
                              ArtiAcceptError, ArtiStop, DnsRelease
  <2> QED
    BY <2>1, <2>2
<1>15. CASE UNCHANGED vars
  BY <1>15, <1>bg, <1>same DEF vars
<1> QED
  BY <1>same, <1>1, <1>2, <1>3, <1>4, <1>5, <1>6, <1>7, <1>8, <1>9, <1>10, <1>11, <1>12, <1>13,
     <1>14, <1>15 DEF Next, Call

\* The orchestrator implements the life cycle.
THEOREM LifeRefinement == Spec => ImplementsSessionLife
<1>1. Spec => []NoOverwrite
  BY NeverOverwritten
<1>2. IInv => LifeFacts
  BY LifeByOwner DEF IInv
<1>3. IInv /\ IInv' /\ NoOverwrite /\ LifeFacts /\ LifeFacts' /\ [Next]_vars => [Life!Next]_lifeMap
  BY LifeStep
<1> QED
  BY Invariance, LifeInit, <1>1, <1>2, <1>3, PTL DEF Spec, ImplementsSessionLife, Life!Spec, lifeMap

-----------------------------------------------------------------------------
(* With one caller, Orchestrator implements LoneCaller.                       *)

upMap == (running # NoSession \/ pc[Caller] = "cancel") /\ pc[Caller] # "announce"
loneMap == <<status, upMap, Phase>>

\* What holds of one caller and not of two: start() runs with nothing installed,
\* as its guard found it, a stop() that has taken the session leaves nothing
\* behind, and nobody else sets the status while leaf #2 and Tor come up.
OneAtATime ==
  /\ pc[Caller] \in {"prepare"} \cup Owning => running = NoSession
  /\ pc[Caller] = "announce" => running # NoSession
  /\ pc[Caller] \in {"leaf2", "bootstrap", "leaf1"} => status = "Bootstrapping"

\* Every step of the only caller, and of the tasks it left, is a step of
\* LoneCaller or changes nothing of it; and a call finds what the last one left.
LEMMA LoneStep ==
  ASSUME Callers = {Caller}, IInv, OneAtATime, [Next]_vars
  PROVE  OneAtATime' /\ [Lone!Next]_loneMap
<1> USE NoSessionAssumption DEF IInv, TypeOK, ExclusiveOwnership, OneAtATime, loneMap, upMap, Phase, At, Owning, Building, Stopping,
        Lone!Next
<1>0. Caller \in Callers
  OBVIOUS
<1>1. CASE StartCheck(Caller)
  BY <1>0, <1>1 DEF StartCheck, Goto, Return
<1>2. CASE StartPrepare(Caller)
  BY <1>0, <1>2 DEF StartPrepare, Lone!Begin
<1>3. CASE StartLeaf2(Caller)
  BY <1>0, <1>3 DEF StartLeaf2, StartFails, Goto, Return, Lone!Fail
<1>4. CASE Bootstrap(Caller)
  BY <1>0, <1>4 DEF Bootstrap, StartFails, Goto, Return, Lone!Fail
<1>5. CASE StartLeaf1(Caller)
  BY <1>0, <1>5 DEF StartLeaf1, StartFails, Goto, Return, Lone!Fail, Lone!Tunnel
<1>6. CASE BindDns(Caller)
  BY <1>0, <1>6 DEF BindDns, StartFails, Goto, Return, Lone!Fail
<1>7. CASE AdoptFails(Caller)
  BY <1>0, <1>7 DEF AdoptFails, StartFails, Return, Lone!Fail
<1>8. CASE Install(Caller)
  BY <1>0, <1>8 DEF Install
<1>9. CASE Announce(Caller)
  BY <1>0, <1>9 DEF Announce, Return, Lone!Succeed
<1>10. CASE StopTake(Caller)
  BY <1>0, <1>10 DEF StopTake, Return
<1>11. CASE StopCancel(Caller)
  BY <1>0, <1>11 DEF StopCancel, Goto, Lone!Disconnect
<1>12. CASE StopDone(Caller)
  BY <1>0, <1>12 DEF StopDone, Return, Lone!Finish
<1>13. CASE StopTimeout(Caller)
  BY <1>0, <1>13 DEF StopTimeout, Return, Lone!Finish
<1>14. CASE \E s \in Sessions : Background(s)
  <2>1. UNCHANGED <<status, running, pc>>
    BY <1>14 DEF Background, DrainTun, DrainChain, DrainEnd, Watcher, LeafExit, ArtiBind, ArtiAcceptError,
                 ArtiStop, DnsRelease
  <2> QED
    BY <2>1
<1>15. CASE UNCHANGED vars
  BY <1>15 DEF vars
<1> QED
  BY <1>1, <1>2, <1>3, <1>4, <1>5, <1>6, <1>7, <1>8, <1>9, <1>10, <1>11, <1>12, <1>13, <1>14, <1>15
  DEF Next, Call

\* A caller that is alone, as the Android service is on its main thread, sees
\* start() and stop() as LoneCaller has them (orchestrator.rs:89-213): a start()
\* is refused exactly while a session is up, a failed one leaves nothing up,
\* and the status follows the call.
THEOREM LoneRefinement ==
  ASSUME NEW only, Callers = {only}
  PROVE  Spec => ImplementsLoneCaller
<1>1. Callers = {Caller}
  BY DEF Caller
<1>2. Init => OneAtATime /\ Lone!Init
  BY <1>1, NoSessionAssumption DEF Init, OneAtATime, Owning, Building, Stopping, Lone!Init, Phase
<1>3. IInv /\ OneAtATime /\ [Next]_vars => OneAtATime' /\ [Lone!Next]_loneMap
  BY <1>1, LoneStep
<1> QED
  BY Invariance, <1>2, <1>3, PTL DEF Spec, ImplementsLoneCaller, Lone!Spec, loneMap, upMap
=============================================================================

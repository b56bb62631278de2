SPECIFICATION Spec
CONSTANTS
  MaxConnects = 3
  MaxDisconnects = 1
  MaxRevokes = 1
INVARIANT NoServiceNoSession
INVARIANT SessionHeld
INVARIANT BusExclusive
INVARIANT OkNeverInvented
INVARIANT LastWishWins
PROPERTY PfdOutlivesSession
PROPERTY AnsweredOnce
PROPERTY DisconnectingEnds

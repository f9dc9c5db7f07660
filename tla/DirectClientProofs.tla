------------------------- MODULE DirectClientProofs -------------------------
(***************************************************************************)
(* The unlocked connection of a direct client, for every number of threads *)
(* that use it and that close it: as long as one thread uses the client,   *)
(* it finds its stub, and close() releases its channel.                    *)
(***************************************************************************)
EXTENDS DirectClient, FiniteSetTheorems, TLAPS

\* A finite set with at most one element has no two different ones.
LEMMA AtMostOne ==
    ASSUME NEW S, IsFiniteSet(S), Cardinality(S) <= 1, NEW x \in S, NEW y \in S
    PROVE  x = y
<1> SUFFICES ASSUME x # y PROVE FALSE
  OBVIOUS
<1>1. IsFiniteSet({x}) /\ Cardinality({x}) = 1
  BY FS_Singleton
<1>2. IsFiniteSet({x} \cup {y}) /\ Cardinality({x} \cup {y}) = Cardinality({x}) + 1
  BY <1>1, FS_AddElement
<1>3. Cardinality({x} \cup {y}) <= Cardinality(S)
  BY FS_Subset
<1>4. Cardinality(S) \in Nat
  BY FS_CardinalityType
<1> QED
  BY <1>1, <1>2, <1>3, <1>4

-----------------------------------------------------------------------------
(* The invariant.                                                          *)

Labels  == {"idle", "stub", "channel", "open", "make", "keep", "assert", "fetch", "rpc"}
Results == {"none", "ok", "cancelled", "error", "assertion", "internal"}
Stages  == {"idle", "test", "shut", "forget_channel", "forget_stub", "done", "failed"}

\* The variables have their types, and channels are numbered as they are opened.
TypeOK ==
    /\ closed \in BOOLEAN
    /\ opened \in Nat /\ channel \in 0..opened /\ stub \in 0..opened
    /\ shut \subseteq 1..opened
    /\ pc \in [Users -> Labels] /\ seen \in [Users -> 0..opened]
    /\ result \in [Users -> Results]
    /\ closer \in [Closers -> Stages] /\ quiet \in [Closers -> BOOLEAN]

\* One thread has used the client; one close() at most has met an operation.
Solo == \A u, v \in Seen : u = v
Single == \A j, k \in Loud : j = k

\* _closed is set by the first close() for good, so that nobody is inside after a
\* close() that nobody was inside at.
Barred ==
    /\ ~closed => \A k \in Closers : closer[k] = "idle"
    /\ \A k \in Closers : quiet[k] => closer[k] # "idle"
    /\ \A k \in Closers : quiet[k] => \A u \in Users : pc[u] = "idle"

\* What one thread has tested stays true until it uses it.
Fresh ==
    /\ stub = 0 /\ channel # 0 => \E u \in Users : pc[u] \in {"make", "keep"}
    /\ \A u \in Users :
          /\ pc[u] \in {"channel", "open"} => stub = 0
          /\ pc[u] = "make" => channel # 0
          /\ pc[u] = "keep" => seen[u] # 0
          /\ pc[u] \in {"assert", "fetch"} => stub # 0
          /\ result[u] \notin {"assertion", "internal"}

\* The channel in use is the only one that may be open, and nobody forgets it
\* before it is closed.
Held ==
    /\ 1..opened \subseteq shut \cup {channel}
    /\ \A k \in Closers : closer[k] = "forget_channel" => channel \in shut \cup {0}
    /\ \A k \in Closers : closer[k] = "forget_channel" /\ channel = 0
          => \A u \in Users : pc[u] = "idle"
    /\ \A u \in Users : pc[u] = "open" => channel = 0
    /\ \A k \in Closers : quiet[k] /\ closer[k] \in {"forget_stub", "done"} => channel = 0

Inv ==
    /\ TypeOK /\ Barred
    /\ Solo /\ ~closed => Fresh
    /\ Solo /\ Single => Held

\* It holds of a new client.
LEMMA InvInit == Init => Inv
<1> SUFFICES ASSUME Init PROVE Inv
  OBVIOUS
<1>1. TypeOK
  <2>1. quiet \in [Closers -> BOOLEAN] /\ closed \in BOOLEAN
    BY Zenon DEF Init
  <2>2. /\ opened \in Nat /\ channel \in 0..opened /\ stub \in 0..opened
        /\ seen \in [Users -> 0..opened] /\ shut \subseteq 1..opened
    BY DEF Init
  <2>3. /\ pc \in [Users -> Labels] /\ result \in [Users -> Results]
        /\ closer \in [Closers -> Stages]
    BY DEF Init, Labels, Results, Stages
  <2> QED
    BY <2>1, <2>2, <2>3 DEF TypeOK
<1>2. Barred /\ Fresh /\ Held
  BY DEF Init, Barred, Fresh, Held
<1> QED
  BY <1>1, <1>2 DEF Inv

\* Every step keeps the types.
LEMMA TypeStep == TypeOK /\ [Next]_vars => TypeOK'
<1> SUFFICES ASSUME TypeOK, [Next]_vars PROVE TypeOK'
  OBVIOUS
<1> USE DEF TypeOK, Labels, Results, Stages
<1>1. ASSUME NEW u \in Users, BeginClosed(u) \/ \E n \in {1, 2} : Begin(u, n) PROVE TypeOK'
  <2>1. CASE BeginClosed(u)
    BY <2>1 DEF BeginClosed, End, Goto, connection, closerVars
  <2>2. CASE \E n \in {1, 2} : Begin(u, n)
    BY <2>2 DEF Begin, Goto, connection, closerVars
  <2> QED
    BY <1>1, <2>1, <2>2
<1>2. ASSUME NEW u \in Users, TestStub(u) \/ TestChannel(u) PROVE TypeOK'
  BY <1>2 DEF TestStub, TestChannel, Goto, connection, closerVars
<1>3. ASSUME NEW u \in Users, OpenChannel(u) PROVE TypeOK'
  <2>1. seen' \in [Users -> 0..opened'] /\ shut' \subseteq 1..opened'
    BY <1>3 DEF OpenChannel
  <2>2. channel' \in 0..opened' /\ stub' \in 0..opened' /\ opened' \in Nat
    BY <1>3 DEF OpenChannel
  <2> QED
    BY <1>3, <2>1, <2>2 DEF OpenChannel, Goto, closerVars
<1>4. ASSUME NEW u \in Users, MakeStub(u) \/ KeepStub(u) PROVE TypeOK'
  <2>1. CASE MakeStub(u)
    BY <2>1 DEF MakeStub, End, Goto, connection, closerVars
  <2>2. CASE KeepStub(u)
    BY <2>2 DEF KeepStub, Goto, closerVars
  <2> QED
    BY <1>4, <2>1, <2>2
<1>5. ASSUME NEW u \in Users, AssertStub(u) \/ FetchStub(u) PROVE TypeOK'
  <2>1. CASE AssertStub(u)
    BY <2>1 DEF AssertStub, End, Goto, connection, closerVars
  <2>2. CASE FetchStub(u)
    BY <2>2 DEF FetchStub, End, Goto, connection, closerVars
  <2> QED
    BY <1>5, <2>1, <2>2
<1>6. ASSUME NEW u \in Users, RpcSucceeds(u) \/ RpcFails(u) PROVE TypeOK'
  <2>1. UNCHANGED <<connection, closerVars, seen>>
    BY <1>6 DEF RpcSucceeds, RpcFails
  <2>2. pc' \in [Users -> Labels]
    BY <1>6 DEF RpcSucceeds, RpcFails, End, Goto
  <2>3. result' \in [Users -> Results]
    BY <1>6 DEF RpcSucceeds, RpcFails, End
  <2> QED
    BY <2>1, <2>2, <2>3 DEF connection, closerVars
<1>7. ASSUME NEW k \in Closers, Closer(k) PROVE TypeOK'
  <2>1. CASE SetClosed(k)
    <3>1. closed' \in BOOLEAN /\ quiet' \in [Closers -> BOOLEAN]
      BY <2>1, Zenon DEF SetClosed
    <3> QED
      BY <2>1, <3>1 DEF SetClosed, userVars
  <2>2. CASE TestOpen(k)
    BY <2>2 DEF TestOpen, connection, userVars
  <2>3. CASE CloseChannel(k) \/ ForgetChannel(k) \/ ForgetStub(k)
    <3>1. UNCHANGED <<closed, quiet, opened, pc, seen, result>>
      BY <2>3 DEF CloseChannel, ForgetChannel, ForgetStub, userVars
    <3>2. closer' \in [Closers -> Stages]
      BY <2>3 DEF CloseChannel, ForgetChannel, ForgetStub
    <3>3. channel' \in {channel, 0} /\ stub' \in {stub, 0} /\ shut' \subseteq shut \cup {channel}
      BY <2>3 DEF CloseChannel, ForgetChannel, ForgetStub
    <3>4. channel = 0 => shut' = shut
      BY <2>3 DEF CloseChannel, ForgetChannel, ForgetStub
    <3>5. channel' \in 0..opened /\ stub' \in 0..opened /\ shut' \subseteq 1..opened
      BY <3>3, <3>4
    <3> QED
      BY <3>1, <3>2, <3>5
  <2> QED
    BY <1>7, <2>1, <2>2, <2>3 DEF Closer
<1>8. CASE UNCHANGED vars
  BY <1>8 DEF vars, connection, userVars, closerVars
<1> QED
  BY <1>1, <1>2, <1>3, <1>4, <1>5, <1>6, <1>7, <1>8 DEF Next, User

\* A thread that has used the client, and a close() that has met an operation, stay
\* one that has.
LEMMA SeenGrows == TypeOK /\ [Next]_vars => Seen \subseteq Seen' /\ Loud \subseteq Loud'
<1> SUFFICES ASSUME TypeOK, [Next]_vars PROVE Seen \subseteq Seen' /\ Loud \subseteq Loud'
  OBVIOUS
<1> USE DEF TypeOK
<1>1. ASSUME NEW u \in Users, User(u)
      PROVE  Seen \subseteq Seen' /\ UNCHANGED <<closer, quiet>>
  BY <1>1 DEF User, BeginClosed, Begin, TestStub, TestChannel, OpenChannel, MakeStub, KeepStub,
     AssertStub, FetchStub, RpcSucceeds, RpcFails, End, Goto, closerVars, Seen
<1>2. ASSUME NEW k \in Closers, Closer(k)
      PROVE  Loud \subseteq Loud' /\ UNCHANGED <<pc, result>>
  BY <1>2 DEF Closer, SetClosed, TestOpen, CloseChannel, ForgetChannel, ForgetStub, userVars,
     Loud
<1>3. CASE UNCHANGED vars
  BY <1>3 DEF vars, userVars, closerVars, Seen, Loud
<1> QED
  BY <1>1, <1>2, <1>3 DEF Next, Seen, Loud

\* Nobody enters a client that is closed.
LEMMA BarredStep == TypeOK /\ Barred /\ [Next]_vars => Barred'
<1> SUFFICES ASSUME TypeOK, Barred, [Next]_vars PROVE Barred'
  OBVIOUS
<1> USE DEF TypeOK, Barred
<1>1. ASSUME NEW u \in Users, User(u) PROVE Barred'
  <2>1. UNCHANGED <<closed, closer, quiet>>
    BY <1>1 DEF User, BeginClosed, Begin, TestStub, TestChannel, OpenChannel, MakeStub, KeepStub,
       AssertStub, FetchStub, RpcSucceeds, RpcFails, End, Goto, closerVars, connection
  <2>2. ASSUME NEW k \in Closers, quiet[k], NEW v \in Users PROVE pc'[v] = "idle"
    <3>1. closed /\ pc[u] = "idle" /\ pc[v] = "idle"
      BY <2>2
    <3> QED
      BY <1>1, <3>1 DEF User, BeginClosed, Begin, TestStub, TestChannel, OpenChannel, MakeStub,
         KeepStub, AssertStub, FetchStub, RpcSucceeds, RpcFails, End, Goto
  <2> QED
    BY <2>1, <2>2
<1>2. ASSUME NEW k \in Closers, Closer(k) PROVE Barred'
  BY <1>2 DEF Closer, SetClosed, TestOpen, CloseChannel, ForgetChannel, ForgetStub, userVars,
     connection
<1>3. CASE UNCHANGED vars
  BY <1>3 DEF vars, connection, userVars, closerVars
<1> QED
  BY <1>1, <1>2, <1>3 DEF Next

\* A thread alone in an open client finds what it has left.
LEMMA FreshStep ==
    ASSUME TypeOK, Solo, Fresh, ~closed', [Next]_vars, Solo', ~closed, Barred
    PROVE  Fresh'
<1> USE DEF TypeOK
<1>0. \A u, v \in Users : pc[u] # "idle" /\ pc[v] # "idle" => u = v
  BY DEF Solo, Seen
<1>1. ASSUME NEW u \in Users, BeginClosed(u) \/ \E n \in {1, 2} : Begin(u, n) PROVE Fresh'
  BY <1>1 DEF BeginClosed, Begin, End, Goto, connection, closerVars, Fresh
<1>2. ASSUME NEW u \in Users, TestStub(u) \/ TestChannel(u) PROVE Fresh'
  BY <1>0, <1>2 DEF TestStub, TestChannel, Goto, connection, closerVars, Fresh
<1>3. ASSUME NEW u \in Users, OpenChannel(u) PROVE Fresh'
  BY <1>0, <1>3 DEF OpenChannel, Goto, closerVars, Fresh
<1>4. ASSUME NEW u \in Users, MakeStub(u) PROVE Fresh'
  BY <1>0, <1>4 DEF MakeStub, End, Goto, connection, closerVars, Fresh
<1>5. ASSUME NEW u \in Users, KeepStub(u) PROVE Fresh'
  BY <1>0, <1>5 DEF KeepStub, Goto, closerVars, Fresh
<1>6. ASSUME NEW u \in Users, AssertStub(u) \/ FetchStub(u) PROVE Fresh'
  BY <1>0, <1>6 DEF AssertStub, FetchStub, End, Goto, connection, closerVars, Fresh
<1>7. ASSUME NEW u \in Users, RpcSucceeds(u) \/ RpcFails(u) PROVE Fresh'
  BY <1>0, <1>7 DEF RpcSucceeds, RpcFails, End, Goto, connection, closerVars, Fresh
<1>8. ASSUME NEW k \in Closers, Closer(k) PROVE FALSE
  BY <1>8 DEF Closer, SetClosed, TestOpen, CloseChannel, ForgetChannel, ForgetStub, Barred
<1>9. CASE UNCHANGED vars
  BY <1>9 DEF vars, connection, userVars, closerVars, Fresh
<1> QED
  BY <1>1, <1>2, <1>3, <1>4, <1>5, <1>6, <1>7, <1>8, <1>9 DEF Next, User

\* A channel is forgotten only after it was closed.
LEMMA HeldStep ==
    ASSUME TypeOK, Barred, Solo, Single, Held, [Next]_vars
    PROVE  Held'
<1> USE DEF TypeOK
<1>0. \A u, v \in Users : pc[u] # "idle" /\ pc[v] # "idle" => u = v
  BY DEF Solo, Seen
<1>1. ASSUME NEW u \in Users, BeginClosed(u) \/ \E n \in {1, 2} : Begin(u, n) PROVE Held'
  BY <1>1 DEF BeginClosed, Begin, End, Goto, connection, closerVars, Held, Barred
<1>2. ASSUME NEW u \in Users, TestStub(u) \/ TestChannel(u) PROVE Held'
  BY <1>2 DEF TestStub, TestChannel, Goto, connection, closerVars, Held
<1>3. ASSUME NEW u \in Users, OpenChannel(u) PROVE Held'
  <2>1. /\ pc[u] = "open" /\ channel = 0 /\ opened' = opened + 1 /\ channel' = opened + 1
        /\ UNCHANGED <<shut, closer, quiet>> /\ pc' = [pc EXCEPT ![u] = "make"]
    BY <1>3 DEF OpenChannel, Goto, closerVars, Held
  <2>2. \A k \in Closers : closer[k] # "forget_channel" /\ ~quiet[k]
    BY <2>1 DEF Held, Barred
  <2>3. 1..opened' \subseteq shut' \cup {channel'}
    BY <2>1 DEF Held
  <2> QED
    BY <1>0, <2>1, <2>2, <2>3 DEF Held
<1>4. ASSUME NEW u \in Users, MakeStub(u) \/ KeepStub(u) PROVE Held'
  BY <1>4 DEF MakeStub, KeepStub, End, Goto, connection, closerVars, Held
<1>5. ASSUME NEW u \in Users, AssertStub(u) \/ FetchStub(u) PROVE Held'
  BY <1>5 DEF AssertStub, FetchStub, End, Goto, connection, closerVars, Held
<1>6. ASSUME NEW u \in Users, RpcSucceeds(u) \/ RpcFails(u) PROVE Held'
  BY <1>6 DEF RpcSucceeds, RpcFails, End, Goto, connection, closerVars, Held
<1>7. ASSUME NEW k \in Closers, SetClosed(k) \/ TestOpen(k) PROVE Held'
  BY <1>7 DEF SetClosed, TestOpen, connection, userVars, Held
<1>8. ASSUME NEW k \in Closers, CloseChannel(k) PROVE Held'
  BY <1>8 DEF CloseChannel, userVars, Held
<1>9. ASSUME NEW k \in Closers, ForgetChannel(k) PROVE Held'
  <2>1. /\ closer[k] = "forget_channel" /\ channel' = 0
        /\ closer' = [closer EXCEPT ![k] = "forget_stub"]
        /\ UNCHANGED <<pc, opened, shut, quiet>>
    BY <1>9 DEF ForgetChannel, userVars
  <2>2. ASSUME NEW j \in Closers, closer'[j] = "forget_channel", NEW u \in Users
        PROVE  pc[u] = "idle"
    <3>1. j # k /\ closer[j] = "forget_channel"
      BY <2>1, <2>2
    <3>2. quiet[j] \/ quiet[k]
      BY <2>1, <3>1 DEF Single, Loud
    <3> QED
      BY <3>2 DEF Barred
  <2>3. 1..opened' \subseteq shut' \cup {channel'}
    BY <2>1 DEF Held
  <2> QED
    BY <2>1, <2>2, <2>3 DEF Held
<1>10. ASSUME NEW k \in Closers, ForgetStub(k) PROVE Held'
  BY <1>10 DEF ForgetStub, userVars, Held
<1>11. CASE UNCHANGED vars
  BY <1>11 DEF vars, connection, userVars, closerVars, Held
<1> QED
  BY <1>1, <1>2, <1>3, <1>4, <1>5, <1>6, <1>7, <1>8, <1>9, <1>10, <1>11 DEF Next, User, Closer

\* Every step keeps the invariant.
LEMMA InvStep == Inv /\ [Next]_vars => Inv'
<1> SUFFICES ASSUME Inv, [Next]_vars PROVE Inv'
  OBVIOUS
<1>1. TypeOK' /\ Barred'
  BY TypeStep, BarredStep DEF Inv
<1>2. (Solo' => Solo) /\ (Single' => Single)
  BY SeenGrows DEF Inv, Solo, Single
<1>3. ~closed' => ~closed
  BY DEF Inv, Next, User, Closer, BeginClosed, Begin, TestStub, TestChannel, OpenChannel,
     MakeStub, KeepStub, AssertStub, FetchStub, RpcSucceeds, RpcFails, SetClosed, TestOpen,
     CloseChannel, ForgetChannel, ForgetStub, connection, vars
<1>4. Solo' /\ ~closed' => Fresh'
  BY <1>2, <1>3, FreshStep DEF Inv
<1>5. Solo' /\ Single' => Held'
  BY <1>2, HeldStep DEF Inv
<1> QED
  BY <1>1, <1>4, <1>5 DEF Inv

\* The users and the closers are finitely many: counting them makes sense.
LEMMA Counted ==
    /\ Cardinality(Seen) <= 1 => Solo
    /\ Cardinality(Loud) <= 1 => Single
<1>1. IsFiniteSet(Seen) /\ IsFiniteSet(Loud)
  BY UsersAssumption, FS_Subset DEF Seen, Loud
<1> QED
  BY <1>1, AtMostOne DEF Solo, Single

-----------------------------------------------------------------------------
(* The results.                                                            *)

\* However many operations it executes, one thread alone never meets the assertion
\* of the property stub, nor a missing stub, before the client is closed.
THEOREM SoloSucceeds == Spec => []SoloNeverFails
<1>1. Inv => SoloNeverFails
  BY Counted DEF Inv, Fresh, SoloNeverFails
<1> QED
  BY <1>1, InvInit, InvStep, PTL DEF Spec

\* However many threads close a client that one thread has used: a close() that no
\* operation was inside at, and before which at most one was interrupted, leaves no
\* channel open.
THEOREM QuietCloses == Spec => []QuietCloseReleases
<1>1. Inv => QuietCloseReleases
  <2> SUFFICES ASSUME Inv, Solo, Single, NEW k \in Closers, closer[k] = "done", quiet[k]
               PROVE  1..opened \subseteq shut
    BY Counted DEF QuietCloseReleases
  <2> QED
    BY DEF Inv, TypeOK, Held
<1> QED
  BY <1>1, InvInit, InvStep, PTL DEF Spec
=============================================================================

------------------------------ MODULE BootProofs ------------------------------
(***************************************************************************)
(* Proofs about the socket file and the registry of Boot, for any number of *)
(* daemons, starts and changes of the compositor's globals.                 *)
(***************************************************************************)
EXTENDS Boot, SequenceTheorems, FiniteSetTheorems, TLAPS

Outcomes == {"none", "killed", "IoError", "AddressInUse", "NoCompositor", "NoSeat",
             "NoManager", "ConnectionLost"}

FileTypes ==
  /\ binds \in Nat /\ path \in Nat
  /\ pc \in [Daemons -> {"off", "unlink", "bind", "connect", "first", "second", "check", "loop"}]
  /\ outcome \in [Daemons -> Outcomes]
  /\ cleared \in [Daemons -> Nat] /\ listener \in [Daemons -> Nat]

\* Every file a start has seen is one that was bound before.
PastInv == \A d \in Daemons : cleared[d] <= binds

\* Before bind(2) a process listens on nothing.
DeafInv == \A d \in Daemons : pc[d] \in {"off", "unlink", "bind"} => listener[d] = 0

\* A file that appears between remove_file and bind was bound in between.
RaceInv == \A d \in Daemons : pc[d] = "bind" => path = 0 \/ binds > cleared[d]

\* A start that is under way has not ended yet.
RunningInv == \A d \in Daemons : pc[d] # "off" => outcome[d] = "none"

BootInv ==
  FileTypes /\ PastInv /\ DeafInv /\ RaceInv /\ RunningInv /\ StaleSocketNeverBlocks

-----------------------------------------------------------------------------
LEMMA BootInit == Init => BootInv
<1> SUFFICES ASSUME Init PROVE BootInv
  OBVIOUS
<1>1. FileTypes
  BY DEF Init, FileTypes, Outcomes
<1>2. PastInv /\ DeafInv /\ RaceInv /\ RunningInv /\ StaleSocketNeverBlocks
  BY DEF Init, PastInv, DeafInv, RaceInv, RunningInv, StaleSocketNeverBlocks
<1> QED BY <1>1, <1>2 DEF BootInv

\* A process that ends leaves the path alone; only the reason can matter.
LEMMA EndKeeps ==
  ASSUME BootInv, NEW d \in Daemons, NEW why \in Outcomes, End(d, why),
         why = "AddressInUse" => pc[d] = "bind" /\ path # 0
  PROVE  BootInv'
<1>1. /\ UNCHANGED <<binds, path, cleared>>
      /\ pc' = [pc EXCEPT ![d] = "off"] /\ outcome' = [outcome EXCEPT ![d] = why]
      /\ listener' = [listener EXCEPT ![d] = 0]
  BY DEF End, PathAfterExit
<1>2. FileTypes'
  BY <1>1 DEF BootInv, FileTypes
<1>3. PastInv' /\ DeafInv' /\ RaceInv' /\ RunningInv'
  BY <1>1 DEF BootInv, FileTypes, PastInv, DeafInv, RaceInv, RunningInv
<1>4. StaleSocketNeverBlocks'
  BY <1>1 DEF BootInv, FileTypes, RaceInv, StaleSocketNeverBlocks
<1> QED BY <1>2, <1>3, <1>4 DEF BootInv

\* Steps that only move a process on, or concern the compositor.
LEMMA QuietKeeps ==
  ASSUME BootInv, UNCHANGED <<fileVars, outcome>>,
         \/ UNCHANGED pc
         \/ \E d \in Daemons, to \in {"first", "second", "check", "loop"} :
              pc[d] \in {"connect", "first", "second", "check"} /\ pc' = [pc EXCEPT ![d] = to]
  PROVE  BootInv'
<1>1. CASE UNCHANGED pc
  BY <1>1 DEF BootInv, FileTypes, PastInv, DeafInv, RaceInv, RunningInv,
              StaleSocketNeverBlocks, fileVars
<1>2. ASSUME NEW d \in Daemons, NEW to \in {"first", "second", "check", "loop"},
             pc[d] \in {"connect", "first", "second", "check"}, pc' = [pc EXCEPT ![d] = to]
      PROVE  BootInv'
  <2>1. FileTypes'
    BY <1>2 DEF BootInv, FileTypes, fileVars
  <2>2. PastInv' /\ DeafInv' /\ RaceInv' /\ RunningInv' /\ StaleSocketNeverBlocks'
    BY <1>2 DEF BootInv, FileTypes, PastInv, DeafInv, RaceInv, RunningInv,
                StaleSocketNeverBlocks, fileVars
  <2> QED BY <2>1, <2>2 DEF BootInv
<1> QED BY <1>1, <1>2

-----------------------------------------------------------------------------
LEMMA BootStep == BootInv /\ [Next]_vars => BootInv'
<1> SUFFICES ASSUME BootInv, [Next]_vars PROVE BootInv'
  OBVIOUS
<1>1. ASSUME NEW d \in Daemons, Start(d) PROVE BootInv'
  <2>1. /\ pc[d] = "off" /\ UNCHANGED <<path, binds, cleared, listener>>
        /\ pc' = [pc EXCEPT ![d] = "unlink"] /\ outcome' = [outcome EXCEPT ![d] = "none"]
    BY <1>1 DEF Start, fileVars
  <2>2. FileTypes'
    BY <2>1 DEF BootInv, FileTypes, Outcomes
  <2>3. PastInv' /\ DeafInv' /\ RaceInv' /\ RunningInv' /\ StaleSocketNeverBlocks'
    BY <2>1 DEF BootInv, FileTypes, PastInv, DeafInv, RaceInv, RunningInv,
                StaleSocketNeverBlocks
  <2> QED BY <2>2, <2>3 DEF BootInv
<1>2. ASSUME NEW d \in Daemons, Unlink(d) PROVE BootInv'
  <2>1. /\ pc[d] = "unlink" /\ UNCHANGED <<outcome, binds, listener>>
        /\ pc' = [pc EXCEPT ![d] = "bind"] /\ path' = 0
        /\ cleared' = [cleared EXCEPT ![d] = binds]
    BY <1>2 DEF Unlink, PathAfterUnlink
  <2>2. FileTypes'
    BY <2>1 DEF BootInv, FileTypes, Outcomes
  <2>3. PastInv' /\ DeafInv'
    BY <2>1 DEF BootInv, FileTypes, PastInv, DeafInv
  <2>4. RaceInv' /\ RunningInv'
    BY <2>1 DEF BootInv, FileTypes, PastInv, RaceInv, RunningInv
  <2>5. StaleSocketNeverBlocks'
    BY <2>1 DEF BootInv, FileTypes, PastInv, RunningInv, StaleSocketNeverBlocks
  <2> QED BY <2>2, <2>3, <2>4, <2>5 DEF BootInv
<1>3. ASSUME NEW d \in Daemons, Bind(d) PROVE BootInv'
  <2>1. /\ pc[d] = "bind" /\ UNCHANGED <<outcome, cleared>>
        /\ binds' = binds + 1 /\ path' = binds + 1
        /\ listener' = [listener EXCEPT ![d] = binds + 1]
        /\ pc' = [pc EXCEPT ![d] = "connect"]
    BY <1>3 DEF Bind
  <2>n. binds \in Nat /\ binds + 1 \in Nat /\ \A e \in Daemons : cleared[e] \in Nat
    BY DEF BootInv, FileTypes
  <2>2. FileTypes'
    <3>1. /\ pc' \in [Daemons -> {"off", "unlink", "bind", "connect", "first", "second",
                                 "check", "loop"}]
          /\ listener' \in [Daemons -> Nat]
      BY <2>1, <2>n DEF BootInv, FileTypes
    <3>2. binds' \in Nat /\ path' \in Nat
      BY <2>1, <2>n
    <3> QED BY <2>1, <3>1, <3>2 DEF BootInv, FileTypes
  <2>3. PastInv' /\ DeafInv'
    BY <2>1 DEF BootInv, FileTypes, PastInv, DeafInv
  <2>4. RaceInv' /\ RunningInv'
    BY <2>1 DEF BootInv, FileTypes, PastInv, RaceInv, RunningInv
  <2>5. StaleSocketNeverBlocks'
    BY <2>1, <2>n DEF BootInv, PastInv, StaleSocketNeverBlocks
  <2> QED BY <2>2, <2>3, <2>4, <2>5 DEF BootInv
<1>4. ASSUME NEW d \in Daemons,
             \/ BindError(d) \/ AddressInUse(d) \/ NoSeat(d) \/ NoManager(d)
             \/ ConnectFails(d) \/ ConnectionLost(d) \/ Kill(d)
      PROVE  BootInv'
  <2>1. \E why \in Outcomes :
          End(d, why) /\ (why = "AddressInUse" => pc[d] = "bind" /\ path # 0)
    BY <1>4 DEF BindError, AddressInUse, NoSeat, NoManager, ConnectFails, ConnectionLost,
                Kill, Outcomes
  <2> QED BY <2>1, EndKeeps
<1>5. ASSUME NEW d \in Daemons,
             \/ Connect(d) \/ FirstRoundtrip(d) \/ SecondRoundtrip(d) \/ EnterLoop(d)
      PROVE  BootInv'
  <2>1. /\ UNCHANGED <<fileVars, outcome>>
        /\ \E to \in {"first", "second", "check", "loop"} :
             pc[d] \in {"connect", "first", "second", "check"} /\ pc' = [pc EXCEPT ![d] = to]
    BY <1>5 DEF Connect, FirstRoundtrip, SecondRoundtrip, EnterLoop
  <2> QED BY <2>1, QuietKeeps
<1>6. ASSUME NEW d \in Daemons, DispatchRegistry(d) \/ Compositor(d)
      PROVE  BootInv'
  <2>1. UNCHANGED <<fileVars, outcome, pc>>
    BY <1>6 DEF DispatchRegistry, Compositor, SendGlobals, SendDone
  <2> QED BY <2>1, QuietKeeps
<1>7. CASE (\E g \in Needed : Change(g)) \/ Idle \/ UNCHANGED vars
  <2>1. UNCHANGED <<fileVars, outcome, pc>>
    BY <1>7 DEF Change, Idle, vars
  <2> QED BY <2>1, QuietKeeps
<1> QED BY <1>1, <1>2, <1>3, <1>4, <1>5, <1>6, <1>7 DEF Next, Advance

\* A path that leads to a live daemon changes by another start's unlink only.
LEMMA NameStep ==
  ASSUME BootInv, [Next]_vars, NEW d \in Daemons,
         path # 0, path = listener[d], path' # path, listener'[d] = listener[d]
  PROVE  \E e \in Daemons \ {d} : pc[e] = "unlink" /\ pc'[e] = "bind"
<1>1. PICK e \in Daemons : Unlink(e) \/ Bind(e)
  BY DEF Next, Advance, Compositor, Start, AddressInUse, Connect, DispatchRegistry,
         FirstRoundtrip, SecondRoundtrip, NoSeat, NoManager, EnterLoop, BindError,
         ConnectFails, ConnectionLost, Kill, End, PathAfterExit, SendGlobals, SendDone,
         Change, Idle, vars, fileVars
<1>2. Unlink(e)
  BY <1>1 DEF Bind
<1>3. pc[e] = "unlink" /\ pc'[e] = "bind"
  BY <1>2 DEF Unlink, BootInv, FileTypes
<1>4. e # d
  BY <1>3 DEF BootInv, DeafInv
<1> QED BY <1>3, <1>4

-----------------------------------------------------------------------------
\* However starts, kills and failures interleave, a start that finds the
\* address in use has lost a race with another bind (comment of bind: a socket
\* left behind is removed first).
THEOREM StaleSocketHarmless == Spec => []StaleSocketNeverBlocks
<1>1. BootInv => StaleSocketNeverBlocks
  BY DEF BootInv
<1> QED BY <1>1, BootInit, BootStep, PTL DEF Spec

\* A daemon reachable by the path stays so until another start unlinks it.
THEOREM NameIsKept == Spec => NameKept
<1>1. BootInv /\ [Next]_vars =>
        [ \A d \in Daemons :
            path # 0 /\ path = listener[d] /\ path' # path /\ listener'[d] = listener[d] =>
              \E e \in Daemons \ {d} : pc[e] = "unlink" /\ pc'[e] = "bind" ]_vars
  BY NameStep
<1> QED BY <1>1, BootInit, BootStep, PTL DEF Spec, NameKept

-----------------------------------------------------------------------------
(* The registry.                                                            *)

Message == [type : {"global", "removed"}, name : Needed] \cup {Event("done", "")}

IsGlobal(m, g) == m.type = "global" /\ m.name = g

NoDone(w) == \A i \in 1..Len(w) : w[i].type # "done"

\* At most one answer to a sync is under way in w; a global that was there
\* when it was given is found or announced before it.
AnsweredOk(w, f, answered) ==
  /\ \A i, j \in 1..Len(w) : w[i].type = "done" /\ w[j].type = "done" => i = j
  /\ \A i \in 1..Len(w) : w[i].type = "done" =>
       \A g \in answered : g \in f \/ \E j \in 1..Len(w) : j < i /\ IsGlobal(w[j], g)

\* A global that is there is found or announced.
ToldOk(w, f, gs) == \A g \in gs : g \in f \/ \E j \in 1..Len(w) : IsGlobal(w[j], g)

\* An event other than an answer is dispatched.
LEMMA Dispatched ==
  ASSUME NEW w \in Seq(Message), w # << >>, Head(w).type # "done", NEW f, NEW f2,
         f2 = IF Head(w).type = "global" THEN f \cup {Head(w).name} ELSE f
  PROVE  /\ Tail(w) \in Seq(Message) /\ (NoDone(w) => NoDone(Tail(w)))
         /\ \A r : AnsweredOk(w, f, r) => AnsweredOk(Tail(w), f2, r)
         /\ \A gs : ToldOk(w, f, gs) => ToldOk(Tail(w), f2, gs)
<1> DEFINE t == Tail(w)
<1>1. /\ t \in Seq(Message) /\ Head(w) = w[1] /\ Len(t) = Len(w) - 1 /\ Len(w) \in Nat \ {0}
      /\ \A i \in 1..Len(t) : i + 1 \in 1..Len(w) /\ t[i] = w[i + 1]
      /\ \A i \in 1..Len(w) : i # 1 => i - 1 \in 1..Len(t) /\ t[i - 1] = w[i]
  OBVIOUS
<1> HIDE DEF t
<1>2. \A g : IsGlobal(w[1], g) => g \in f2
  BY <1>1 DEF IsGlobal
<1>3. f \subseteq f2
  OBVIOUS
<1>4. ASSUME NEW r, AnsweredOk(w, f, r) PROVE AnsweredOk(t, f2, r)
  <2>1. ASSUME NEW i \in 1..Len(t), NEW j \in 1..Len(t),
               t[i].type = "done", t[j].type = "done"
        PROVE  i = j
    <3>1. i + 1 = j + 1
      BY <1>1, <1>4, <2>1 DEF AnsweredOk
    <3> QED BY <1>1, <3>1
  <2>2. ASSUME NEW i \in 1..Len(t), t[i].type = "done", NEW g \in r, g \notin f2
        PROVE  \E j \in 1..Len(t) : j < i /\ IsGlobal(t[j], g)
    <3>1. PICK j \in 1..Len(w) : j < i + 1 /\ IsGlobal(w[j], g)
      BY <1>1, <1>3, <1>4, <2>2 DEF AnsweredOk
    <3>2. j # 1
      BY <1>2, <2>2, <3>1
    <3>3. j - 1 \in 1..Len(t) /\ j - 1 < i /\ t[j - 1] = w[j]
      BY <1>1, <3>1, <3>2
    <3> QED BY <3>1, <3>3
  <2> QED BY <2>1, <2>2 DEF AnsweredOk
<1>5. ASSUME NEW gs, ToldOk(w, f, gs) PROVE ToldOk(t, f2, gs)
  BY <1>1, <1>2, <1>3, <1>5 DEF ToldOk
<1>6. NoDone(w) => NoDone(t)
  BY <1>1 DEF NoDone
<1> QED BY <1>1, <1>4, <1>5, <1>6 DEF t

\* The answer is what the roundtrip waited for.
LEMMA Answered ==
  ASSUME NEW w \in Seq(Message), w # << >>, Head(w).type = "done", NEW f, NEW r,
         AnsweredOk(w, f, r)
  PROVE  /\ Tail(w) \in Seq(Message) /\ NoDone(Tail(w)) /\ r \subseteq f
         /\ AnsweredOk(Tail(w), f, r)
         /\ \A gs : ToldOk(w, f, gs) => ToldOk(Tail(w), f, gs)
<1> DEFINE t == Tail(w)
<1>1. /\ t \in Seq(Message) /\ Head(w) = w[1] /\ Len(t) = Len(w) - 1 /\ Len(w) \in Nat \ {0}
      /\ \A i \in 1..Len(t) : i + 1 \in 1..Len(w) /\ t[i] = w[i + 1]
      /\ \A i \in 1..Len(w) : i # 1 => i - 1 \in 1..Len(t) /\ t[i - 1] = w[i]
  OBVIOUS
<1> HIDE DEF t
<1>2. NoDone(t)
  <2>1. ASSUME NEW i \in 1..Len(t), t[i].type = "done" PROVE FALSE
    <3>1. i + 1 = 1
      BY <1>1, <2>1 DEF AnsweredOk
    <3> QED BY <1>1, <3>1
  <2> QED BY <2>1 DEF NoDone
<1>3. r \subseteq f
  BY <1>1 DEF AnsweredOk
<1>4. AnsweredOk(t, f, r)
  BY <1>2 DEF AnsweredOk, NoDone
<1>5. ASSUME NEW gs, ToldOk(w, f, gs) PROVE ToldOk(t, f, gs)
  <2>1. \A g : ~IsGlobal(w[1], g)
    BY <1>1 DEF IsGlobal
  <2> QED BY <1>1, <1>5, <2>1 DEF ToldOk
<1> QED BY <1>1, <1>2, <1>3, <1>4, <1>5 DEF t

\* The compositor sends more events, none of them an answer.
LEMMA Sent ==
  ASSUME NEW w \in Seq(Message), NEW s \in Seq(Message), NoDone(s), NEW f
  PROVE  /\ w \o s \in Seq(Message) /\ (NoDone(w) => NoDone(w \o s))
         /\ \A r : AnsweredOk(w, f, r) => AnsweredOk(w \o s, f, r)
         /\ \A gs, new : ToldOk(w, f, gs) /\ (\A g \in new : \E i \in 1..Len(s) : IsGlobal(s[i], g))
                           => ToldOk(w \o s, f, gs \cup new)
<1> DEFINE t == w \o s
<1>1. /\ t \in Seq(Message) /\ Len(t) = Len(w) + Len(s) /\ Len(w) \in Nat /\ Len(s) \in Nat
      /\ \A i \in 1..Len(w) : i \in 1..Len(t) /\ t[i] = w[i]
      /\ \A i \in 1..Len(s) : Len(w) + i \in 1..Len(t) /\ t[Len(w) + i] = s[i]
      /\ \A i \in 1..Len(t) : i \notin 1..Len(w) => i - Len(w) \in 1..Len(s) /\ t[i] = s[i - Len(w)]
  OBVIOUS
<1> HIDE DEF t
<1>2. \A i \in 1..Len(t) : t[i].type = "done" => i \in 1..Len(w) /\ w[i].type = "done"
  BY <1>1 DEF NoDone
<1>3. ASSUME NEW r, AnsweredOk(w, f, r) PROVE AnsweredOk(t, f, r)
  BY <1>1, <1>2, <1>3 DEF AnsweredOk
<1>4. ASSUME NEW gs, NEW new, ToldOk(w, f, gs), \A g \in new : \E i \in 1..Len(s) : IsGlobal(s[i], g)
      PROVE  ToldOk(t, f, gs \cup new)
  BY <1>1, <1>4 DEF ToldOk
<1>5. NoDone(w) => NoDone(t)
  BY <1>2 DEF NoDone
<1> QED BY <1>1, <1>3, <1>4, <1>5 DEF t

\* The compositor answers a sync.
LEMMA SyncDone ==
  ASSUME NEW w \in Seq(Message), NEW e \in Message, e.type = "done", NoDone(w), NEW f, NEW gs,
         ToldOk(w, f, gs)
  PROVE  /\ Append(w, e) \in Seq(Message) /\ AnsweredOk(Append(w, e), f, gs)
         /\ ToldOk(Append(w, e), f, gs)
<1> DEFINE t == Append(w, e)
<1>1. /\ t \in Seq(Message) /\ Len(t) = Len(w) + 1 /\ Len(w) \in Nat /\ t[Len(t)] = e
      /\ \A i \in 1..Len(w) : i \in 1..Len(t) /\ t[i] = w[i]
      /\ \A i \in 1..Len(t) : i = Len(t) \/ i \in 1..Len(w)
  OBVIOUS
<1> HIDE DEF t
<1>2. \A i \in 1..Len(t) : t[i].type = "done" => i = Len(t)
  BY <1>1 DEF NoDone
<1>3. \A i \in 1..Len(w) : i < Len(t)
  BY <1>1
<1>4. AnsweredOk(t, f, gs)
  BY <1>1, <1>2, <1>3 DEF AnsweredOk, ToldOk
<1>5. ToldOk(t, f, gs)
  BY <1>1 DEF ToldOk
<1> QED BY <1>1, <1>4, <1>5 DEF t

\* A set listed once each is listed whole.
LEMMA ListedWhole ==
  ASSUME NEW S, IsFiniteSet(S), NEW s \in SetToSeqs(S)
  PROVE  s \in Seq(S) /\ \A x \in S : \E i \in 1..Len(s) : s[i] = x
<1> DEFINE n == Cardinality(S)
<1>1. n \in Nat /\ ExistsBijection(1..n, S)
  BY FS_CardinalityType
<1>2. s \in [1..n -> S] /\ \A i, j \in 1..n : i # j => s[i] # s[j]
  BY DEF SetToSeqs
<1>3. s \in Injection(1..n, S)
  BY <1>2 DEF Injection, IsInjective
<1>4. Cardinality(1..n) = n
  <2>1. Cardinality(1..n) = IF 1 > n THEN 0 ELSE n - 1 + 1
    BY <1>1, FS_Interval
  <2> HIDE DEF n
  <2> QED BY <1>1, <2>1
<1>5. s \in Surjection(1..n, S)
  BY <1>3, <1>4, FS_Injection
<1> HIDE DEF n
<1>6. s \in Seq(S) /\ Len(s) = n
  BY <1>1, <1>2
<1> QED BY <1>5, <1>6 DEF Surjection

Requests == {<< >>, <<"sync">>, <<"get_registry", "sync">>}

\* With where a start is (p), what it asked (a), what it was sent (w) and found
\* (f), the globals at the last answer (r) and those there now (gs).
StartOk(p, a, w, f, r, gs) ==
  /\ a # << >> => p \in {"first", "second"} /\ NoDone(w)
  /\ AnsweredOk(w, f, r)
  /\ p \in {"first", "second", "check", "loop"} /\ a # <<"get_registry", "sync">> =>
       ToldOk(w, f, gs)
  /\ p \in {"off", "unlink", "bind", "connect"} => w = << >> /\ a = << >>
  /\ p = "check" => r \subseteq f

RegistryTypes ==
  /\ asked \in [Daemons -> Requests] /\ wire \in [Daemons -> Seq(Message)]
  /\ found \in [Daemons -> SUBSET Needed] /\ present \in [Daemons -> SUBSET Needed]
  /\ globals \in SUBSET Needed

RegistryInv ==
  /\ RegistryTypes
  /\ \A d \in Daemons : StartOk(pc[d], asked[d], wire[d], found[d], present[d], globals)
  /\ BootFindsGlobals

LEMMA MessageTypes ==
  /\ \A g \in Needed : Event("global", g) \in Message /\ Event("removed", g) \in Message
  /\ Event("done", "") \in Message
  /\ \A m \in Message : m.type # "done" => m.name \in Needed
<1>1. Event("done", "").type = "done"
  BY DEF Event
<1> QED BY <1>1 DEF Message, Event

LEMMA RequestTypes ==
  /\ \A a \in Requests : /\ a # << >> => a = <<"sync">> \/ a = <<"get_registry", "sync">>
                         /\ (\A i \in 1..Len(a) : a[i] # "get_registry")
                              <=> a # <<"get_registry", "sync">>
  /\ Append(<< >>, "sync") = <<"sync">> /\ Tail(<<"sync">>) = << >> /\ Head(<<"sync">>) = "sync"
  /\ Head(<<"get_registry", "sync">>) = "get_registry"
  /\ Tail(<<"get_registry", "sync">>) = <<"sync">>
  /\ <<"sync">> # << >> /\ <<"get_registry", "sync">> # << >>
  /\ <<"sync">> # <<"get_registry", "sync">>
<1>1. /\ Head(<<"get_registry", "sync">>) = "get_registry" /\ Head(<<"sync">>) = "sync"
      /\ Tail(<<"get_registry", "sync">>) = <<"sync">> /\ Tail(<<"sync">>) = << >>
      /\ Append(<< >>, "sync") = <<"sync">>
      /\ <<"sync">> # << >> /\ <<"get_registry", "sync">> # << >>
      /\ <<"sync">> # <<"get_registry", "sync">>
  OBVIOUS
<1>2. \A i \in 1..Len(<< >>) : << >>[i] # "get_registry"
  OBVIOUS
<1>3. \A i \in 1..Len(<<"sync">>) : <<"sync">>[i] # "get_registry"
  OBVIOUS
<1>4. \E i \in 1..Len(<<"get_registry", "sync">>) : <<"get_registry", "sync">>[i] = "get_registry"
  <2>1. 1 \in 1..Len(<<"get_registry", "sync">>) /\ <<"get_registry", "sync">>[1] = "get_registry"
    OBVIOUS
  <2> QED BY <2>1
<1> QED BY <1>1, <1>2, <1>3, <1>4 DEF Requests

LEMMA RegistryInit == Init => RegistryInv
<1> SUFFICES ASSUME Init PROVE RegistryInv
  OBVIOUS
<1>1. << >> \in Seq(Message) /\ << >> \in Requests
  BY DEF Requests
<1>2. RegistryTypes
  BY <1>1 DEF Init, RegistryTypes
<1>3. ASSUME NEW d \in Daemons
      PROVE  StartOk(pc[d], asked[d], wire[d], found[d], present[d], globals)
  <2>1. /\ pc[d] = "off" /\ asked[d] = << >> /\ wire[d] = << >>
    BY DEF Init
  <2> QED BY <2>1 DEF StartOk, AnsweredOk
<1>4. BootFindsGlobals
  BY DEF Init, BootFindsGlobals
<1> QED BY <1>2, <1>3, <1>4 DEF RegistryInv

\* One start moves, and the others are as they were.
LEMMA OneMoves ==
  ASSUME BootInv, RegistryInv, NEW d \in Daemons, globals' = globals,
         NEW p, pc' = [pc EXCEPT ![d] = p],
         NEW a \in Requests, asked' = [asked EXCEPT ![d] = a],
         NEW w \in Seq(Message), wire' = [wire EXCEPT ![d] = w],
         NEW f \in SUBSET Needed, found' = [found EXCEPT ![d] = f],
         NEW r \in SUBSET Needed, present' = [present EXCEPT ![d] = r],
         StartOk(p, a, w, f, r, globals),
         NEW o, outcome' = [outcome EXCEPT ![d] = o],
         o = "NoSeat" => "wl_seat" \notin r,
         o = "NoManager" => "ext_data_control_manager_v1" \notin r
  PROVE  RegistryInv'
<1>0. RegistryTypes /\ DOMAIN pc = Daemons /\ DOMAIN outcome = Daemons
  BY DEF RegistryInv, BootInv, FileTypes
<1>1. RegistryTypes'
  BY <1>0 DEF RegistryTypes
<1>2. ASSUME NEW e \in Daemons
      PROVE  StartOk(pc'[e], asked'[e], wire'[e], found'[e], present'[e], globals')
  <2>1. CASE e = d
    BY <1>0, <2>1 DEF RegistryTypes
  <2>2. CASE e # d
    <3>1. /\ pc'[e] = pc[e] /\ asked'[e] = asked[e] /\ wire'[e] = wire[e]
          /\ found'[e] = found[e] /\ present'[e] = present[e]
      BY <1>0, <2>2 DEF RegistryTypes
    <3> QED BY <3>1 DEF RegistryInv
  <2> QED BY <2>1, <2>2
<1>3. BootFindsGlobals'
  BY <1>0 DEF RegistryInv, BootFindsGlobals, RegistryTypes
<1> QED BY <1>1, <1>2, <1>3 DEF RegistryInv

\* The same, for a start that ends.
LEMMA OneEnds ==
  ASSUME BootInv, RegistryInv, NEW d \in Daemons, NEW why, End(d, why),
         why = "NoSeat" => "wl_seat" \notin present[d],
         why = "NoManager" => "ext_data_control_manager_v1" \notin present[d]
  PROVE  RegistryInv'
<1>1. /\ pc' = [pc EXCEPT ![d] = "off"] /\ asked' = [asked EXCEPT ![d] = << >>]
      /\ wire' = [wire EXCEPT ![d] = << >>] /\ outcome' = [outcome EXCEPT ![d] = why]
      /\ globals' = globals /\ found' = found /\ present' = present
  BY DEF End
<1>2. /\ << >> \in Requests /\ << >> \in Seq(Message)
      /\ found[d] \in SUBSET Needed /\ present[d] \in SUBSET Needed
      /\ found' = [found EXCEPT ![d] = found[d]] /\ present' = [present EXCEPT ![d] = present[d]]
  BY <1>1 DEF RegistryInv, RegistryTypes, Requests
<1>3. StartOk("off", << >>, << >>, found[d], present[d], globals)
  BY DEF StartOk, AnsweredOk
<1> QED BY <1>1, <1>2, <1>3, OneMoves

LEMMA RegistryStep == BootInv /\ RegistryInv /\ [Next]_vars => RegistryInv'
<1> SUFFICES ASSUME BootInv, RegistryInv, [Next]_vars PROVE RegistryInv'
  OBVIOUS
<1>0. ASSUME NEW d \in Daemons
      PROVE  /\ asked[d] \in Requests /\ wire[d] \in Seq(Message)
             /\ found[d] \in SUBSET Needed /\ present[d] \in SUBSET Needed
             /\ globals \in SUBSET Needed
             /\ StartOk(pc[d], asked[d], wire[d], found[d], present[d], globals)
             /\ (pc[d] # "off" => outcome[d] = "none")
  BY DEF RegistryInv, RegistryTypes, BootInv, RunningInv
<1>i. ASSUME NEW d \in Daemons
      PROVE  /\ pc = [pc EXCEPT ![d] = pc[d]] /\ outcome = [outcome EXCEPT ![d] = outcome[d]]
             /\ asked = [asked EXCEPT ![d] = asked[d]] /\ wire = [wire EXCEPT ![d] = wire[d]]
             /\ found = [found EXCEPT ![d] = found[d]]
             /\ present = [present EXCEPT ![d] = present[d]]
  BY DEF RegistryInv, RegistryTypes, BootInv, FileTypes
<1>o. ASSUME NEW d \in Daemons
      PROVE  /\ outcome[d] = "NoSeat" => "wl_seat" \notin present[d]
             /\ outcome[d] = "NoManager" => "ext_data_control_manager_v1" \notin present[d]
  BY DEF RegistryInv, BootFindsGlobals
\* A start that moves on without the registry.
<1>m. ASSUME NEW d \in Daemons, NEW p, pc' = [pc EXCEPT ![d] = p],
             UNCHANGED <<outcome, waylandVars>>,
             StartOk(p, asked[d], wire[d], found[d], present[d], globals)
      PROVE  RegistryInv'
  <2> DEFINE a == asked[d]
             w == wire[d]
             f == found[d]
             r == present[d]
             o == outcome[d]
  <2>1. /\ globals' = globals /\ outcome' = [outcome EXCEPT ![d] = o]
        /\ asked' = [asked EXCEPT ![d] = a] /\ wire' = [wire EXCEPT ![d] = w]
        /\ found' = [found EXCEPT ![d] = f] /\ present' = [present EXCEPT ![d] = r]
    BY <1>i, <1>m DEF waylandVars
  <2>2. /\ a \in Requests /\ w \in Seq(Message) /\ f \in SUBSET Needed
        /\ r \in SUBSET Needed /\ StartOk(p, a, w, f, r, globals)
        /\ o = "NoSeat" => "wl_seat" \notin r
        /\ o = "NoManager" => "ext_data_control_manager_v1" \notin r
    BY <1>0, <1>o, <1>m
  <2> HIDE DEF a, w, f, r, o
  <2> QED BY <1>m, <2>1, <2>2, OneMoves
<1>1. ASSUME NEW d \in Daemons, Start(d) PROVE RegistryInv'
  <2>1. /\ pc[d] = "off" /\ pc' = [pc EXCEPT ![d] = "unlink"]
        /\ outcome' = [outcome EXCEPT ![d] = "none"] /\ found' = [found EXCEPT ![d] = {}]
        /\ asked' = asked /\ wire' = wire /\ present' = present /\ globals' = globals
    BY <1>1 DEF Start
  <2>2. wire[d] = << >> /\ asked[d] = << >>
    BY <1>0, <2>1 DEF StartOk
  <2>3. StartOk("unlink", asked[d], wire[d], {}, present[d], globals)
    BY <2>2 DEF StartOk, AnsweredOk
  <2> QED BY <1>0, <1>i, <1>o, <2>1, <2>3, OneMoves
<1>2. ASSUME NEW d \in Daemons, Unlink(d) \/ Bind(d) PROVE RegistryInv'
  <2>1. PICK p \in {"bind", "connect"} :
          pc[d] \in {"unlink", "bind"} /\ pc' = [pc EXCEPT ![d] = p]
          /\ UNCHANGED <<outcome, waylandVars>>
    BY <1>2 DEF Unlink, Bind
  <2>2. StartOk(p, asked[d], wire[d], found[d], present[d], globals)
    BY <1>0, <2>1 DEF StartOk
  <2> QED BY <1>m, <2>1, <2>2
<1>3. ASSUME NEW d \in Daemons,
             \/ BindError(d) \/ AddressInUse(d) \/ NoSeat(d) \/ NoManager(d)
             \/ ConnectFails(d) \/ ConnectionLost(d) \/ Kill(d)
      PROVE  RegistryInv'
  <2>1. CASE NoSeat(d)
    <3>1. "wl_seat" \notin present[d] /\ End(d, "NoSeat")
      BY <1>0, <2>1 DEF NoSeat, StartOk
    <3> QED BY <3>1, OneEnds
  <2>2. CASE NoManager(d)
    <3>1. "ext_data_control_manager_v1" \notin present[d] /\ End(d, "NoManager")
      BY <1>0, <2>2 DEF NoManager, StartOk
    <3> QED BY <3>1, OneEnds
  <2>3. CASE BindError(d) \/ AddressInUse(d) \/ ConnectFails(d) \/ ConnectionLost(d) \/ Kill(d)
    <3>1. \E why \in {"killed", "IoError", "AddressInUse", "NoCompositor", "ConnectionLost"} :
            End(d, why)
      BY <2>3 DEF BindError, AddressInUse, ConnectFails, ConnectionLost, Kill
    <3> QED BY <3>1, OneEnds
  <2> QED BY <1>3, <2>1, <2>2, <2>3
<1>4. ASSUME NEW d \in Daemons, Connect(d) PROVE RegistryInv'
  <2>1. /\ pc[d] = "connect" /\ pc' = [pc EXCEPT ![d] = "first"]
        /\ asked' = [asked EXCEPT ![d] = <<"get_registry", "sync">>]
        /\ outcome' = outcome /\ wire' = wire /\ found' = found /\ present' = present
        /\ globals' = globals
    BY <1>4 DEF Connect
  <2>2. wire[d] = << >> /\ <<"get_registry", "sync">> \in Requests
    BY <1>0, <2>1 DEF StartOk, Requests
  <2>3. NoDone(wire[d]) /\ AnsweredOk(wire[d], found[d], present[d])
    BY <2>2 DEF NoDone, AnsweredOk
  <2>4. StartOk("first", <<"get_registry", "sync">>, wire[d], found[d], present[d], globals)
    BY <2>3 DEF StartOk
  <2> QED BY <1>0, <1>i, <1>o, <2>1, <2>2, <2>4, OneMoves
<1>5. ASSUME NEW d \in Daemons, DispatchRegistry(d) PROVE RegistryInv'
  <2> DEFINE m == Head(wire[d])
             f == IF m.type = "global" THEN found[d] \cup {m.name} ELSE found[d]
  <2>1. /\ pc[d] \in {"first", "second", "check", "loop"} /\ wire[d] # << >> /\ m.type # "done"
        /\ found' = [found EXCEPT ![d] = f] /\ wire' = [wire EXCEPT ![d] = Tail(wire[d])]
        /\ pc' = pc /\ outcome' = outcome /\ asked' = asked /\ present' = present
        /\ globals' = globals
    BY <1>0, <1>5 DEF DispatchRegistry, RegistryInv, RegistryTypes
  <2>2. m \in Message
    BY <1>0, <2>1
  <2>3. f \in SUBSET Needed
    BY <1>0, <2>1, <2>2, MessageTypes
  <2>4. /\ Tail(wire[d]) \in Seq(Message) /\ (NoDone(wire[d]) => NoDone(Tail(wire[d])))
        /\ \A r : AnsweredOk(wire[d], found[d], r) => AnsweredOk(Tail(wire[d]), f, r)
        /\ \A gs : ToldOk(wire[d], found[d], gs) => ToldOk(Tail(wire[d]), f, gs)
    BY <1>0, <2>1, Dispatched
  <2>5. found[d] \subseteq f
    OBVIOUS
  <2> HIDE DEF f, m
  <2>6. StartOk(pc[d], asked[d], Tail(wire[d]), f, present[d], globals)
    BY <1>0, <2>1, <2>4, <2>5 DEF StartOk
  <2> DEFINE p == pc[d]
             a == asked[d]
             w == Tail(wire[d])
             r == present[d]
             o == outcome[d]
  <2>7. /\ pc' = [pc EXCEPT ![d] = p] /\ outcome' = [outcome EXCEPT ![d] = o]
        /\ asked' = [asked EXCEPT ![d] = a] /\ present' = [present EXCEPT ![d] = r]
        /\ wire' = [wire EXCEPT ![d] = w] /\ found' = [found EXCEPT ![d] = f]
        /\ globals' = globals
    BY <1>i, <2>1
  <2>8. /\ a \in Requests /\ w \in Seq(Message) /\ r \in SUBSET Needed
        /\ StartOk(p, a, w, f, r, globals)
        /\ o = "NoSeat" => "wl_seat" \notin r
        /\ o = "NoManager" => "ext_data_control_manager_v1" \notin r
    BY <1>0, <1>o, <2>4, <2>6
  <2> HIDE DEF p, a, w, r, o
  <2> QED BY <2>3, <2>7, <2>8, OneMoves
\* A roundtrip is over, and the next thing is asked, if any.
<1>6. ASSUME NEW d \in Daemons, FirstRoundtrip(d) \/ SecondRoundtrip(d) PROVE RegistryInv'
  <2> DEFINE w == Tail(wire[d])
  <2>1. /\ wire[d] # << >> /\ Head(wire[d]).type = "done" /\ DropDone(d) = w
        /\ wire' = [wire EXCEPT ![d] = w] /\ globals' = globals
        /\ pc[d] \in {"first", "second"}
        /\ outcome' = [outcome EXCEPT ![d] = outcome[d]]
        /\ found' = [found EXCEPT ![d] = found[d]]
        /\ present' = [present EXCEPT ![d] = present[d]]
    BY <1>i, <1>6 DEF FirstRoundtrip, SecondRoundtrip, RoundtripOver, DropDone
  <2>2. /\ w \in Seq(Message) /\ NoDone(w) /\ present[d] \subseteq found[d]
        /\ AnsweredOk(w, found[d], present[d])
        /\ \A gs : ToldOk(wire[d], found[d], gs) => ToldOk(w, found[d], gs)
    BY <1>0, <2>1, Answered DEF StartOk
  <2>3. asked[d] = << >>
    <3>1. ~NoDone(wire[d])
      <4>1. 1 \in 1..Len(wire[d]) /\ wire[d][1] = Head(wire[d])
        BY <1>0, <2>1
      <4> QED BY <2>1, <4>1 DEF NoDone
    <3> QED BY <1>0, <3>1 DEF StartOk
  <2>4. ToldOk(w, found[d], globals)
    BY <1>0, <2>1, <2>2, <2>3, RequestTypes DEF StartOk
  <2> HIDE DEF w
  <2>5. CASE FirstRoundtrip(d)
    <3>1. /\ pc' = [pc EXCEPT ![d] = "second"]
          /\ asked' = [asked EXCEPT ![d] = Append(asked[d], "sync")]
      BY <1>0, <2>5 DEF FirstRoundtrip, RegistryInv, RegistryTypes
    <3>2. Append(asked[d], "sync") = <<"sync">> /\ <<"sync">> \in Requests
      BY <2>3, RequestTypes DEF Requests
    <3>3. StartOk("second", <<"sync">>, w, found[d], present[d], globals)
      BY <2>2, <2>4 DEF StartOk
    <3> QED BY <1>0, <1>o, <2>1, <2>2, <3>1, <3>2, <3>3, OneMoves
  <2>6. CASE SecondRoundtrip(d)
    <3>1. /\ pc' = [pc EXCEPT ![d] = "check"] /\ asked' = [asked EXCEPT ![d] = asked[d]]
      BY <1>i, <2>6 DEF SecondRoundtrip
    <3>2. StartOk("check", asked[d], w, found[d], present[d], globals)
      BY <2>2, <2>3, <2>4 DEF StartOk
    <3> QED BY <1>0, <1>o, <2>1, <2>2, <3>1, <3>2, OneMoves
  <2> QED BY <1>6, <2>5, <2>6
<1>7. ASSUME NEW d \in Daemons, EnterLoop(d) PROVE RegistryInv'
  <2>1. /\ pc[d] = "check" /\ pc' = [pc EXCEPT ![d] = "loop"]
        /\ UNCHANGED <<outcome, waylandVars>>
    BY <1>7 DEF EnterLoop
  <2>2. StartOk("loop", asked[d], wire[d], found[d], present[d], globals)
    BY <1>0, <2>1 DEF StartOk
  <2> QED BY <1>m, <2>1, <2>2
<1>8. ASSUME NEW d \in Daemons, SendGlobals(d) PROVE RegistryInv'
  <2>1. PICK order \in SetToSeqs(globals) :
          wire' = [wire EXCEPT ![d] = wire[d] \o
                     [i \in 1..Len(order) |-> Event("global", order[i])]]
    BY <1>0, <1>8 DEF SendGlobals, RegistryInv, RegistryTypes
  <2> DEFINE s == [i \in 1..Len(order) |-> Event("global", order[i])]
  <2>2. /\ asked[d] # << >> /\ Head(asked[d]) = "get_registry"
        /\ asked' = [asked EXCEPT ![d] = Tail(asked[d])] /\ globals' = globals
        /\ pc' = [pc EXCEPT ![d] = pc[d]] /\ outcome' = [outcome EXCEPT ![d] = outcome[d]]
        /\ found' = [found EXCEPT ![d] = found[d]]
        /\ present' = [present EXCEPT ![d] = present[d]]
    BY <1>0, <1>i, <1>8 DEF SendGlobals, RegistryInv, RegistryTypes
  <2>3. asked[d] = <<"get_registry", "sync">> /\ Tail(asked[d]) = <<"sync">>
    BY <1>0, <2>2, RequestTypes
  <2>4. order \in Seq(globals) /\ \A x \in globals : \E i \in 1..Len(order) : order[i] = x
    <3>1. IsFiniteSet(Needed)
      <4>1. IsFiniteSet({}) /\ IsFiniteSet({} \cup {"wl_seat"})
            /\ IsFiniteSet(({} \cup {"wl_seat"}) \cup {"ext_data_control_manager_v1"})
        BY FS_EmptySet, FS_AddElement
      <4>2. Needed = ({} \cup {"wl_seat"}) \cup {"ext_data_control_manager_v1"}
        BY DEF Needed
      <4> QED BY <4>1, <4>2
    <3>2. IsFiniteSet(globals)
      BY <1>0, <3>1, FS_Subset
    <3> QED BY <3>2, ListedWhole
  <2>5. /\ s \in Seq(Message) /\ NoDone(s) /\ Len(s) = Len(order)
        /\ \A g \in globals : \E i \in 1..Len(s) : IsGlobal(s[i], g)
    <3>1. Len(order) \in Nat /\ \A i \in 1..Len(order) : order[i] \in Needed
      BY <1>0, <2>4
    <3>2. \A i \in 1..Len(order) : Event("global", order[i]) \in Message
      BY <3>1, MessageTypes
    <3>3. s \in Seq(Message) /\ Len(s) = Len(order)
      BY <3>1, <3>2
    <3>4. \A i \in 1..Len(s) : s[i].type = "global" /\ s[i].name = order[i]
      BY <3>3 DEF Event
    <3> HIDE DEF s
    <3>5. NoDone(s)
      BY <3>4 DEF NoDone
    <3> QED BY <2>4, <3>3, <3>4, <3>5 DEF IsGlobal
  <2> HIDE DEF s
  <2>6. /\ wire[d] \o s \in Seq(Message) /\ (NoDone(wire[d]) => NoDone(wire[d] \o s))
        /\ \A r : AnsweredOk(wire[d], found[d], r) => AnsweredOk(wire[d] \o s, found[d], r)
        /\ ToldOk(wire[d], found[d], {}) => ToldOk(wire[d] \o s, found[d], {} \cup globals)
    BY <1>0, <2>5, Sent
  <2>7. ToldOk(wire[d] \o s, found[d], globals)
    BY <2>6 DEF ToldOk
  <2> DEFINE w == wire[d] \o s
  <2>8. wire' = [wire EXCEPT ![d] = w]
    BY <2>1 DEF s
  <2> HIDE DEF w
  <2>9. StartOk(pc[d], <<"sync">>, w, found[d], present[d], globals)
    BY <1>0, <2>2, <2>6, <2>7 DEF StartOk, w
  <2>10. w \in Seq(Message) /\ <<"sync">> \in Requests
    BY <2>6 DEF w, Requests
  <2> QED BY <1>0, <1>o, <2>2, <2>3, <2>8, <2>9, <2>10, OneMoves
<1>9. ASSUME NEW d \in Daemons, SendDone(d) PROVE RegistryInv'
  <2> DEFINE w == Append(wire[d], Event("done", ""))
  <2>1. /\ asked[d] # << >> /\ Head(asked[d]) = "sync" /\ globals' = globals
        /\ wire' = [wire EXCEPT ![d] = w] /\ present' = [present EXCEPT ![d] = globals]
        /\ asked' = [asked EXCEPT ![d] = Tail(asked[d])]
        /\ pc' = [pc EXCEPT ![d] = pc[d]] /\ outcome' = [outcome EXCEPT ![d] = outcome[d]]
        /\ found' = [found EXCEPT ![d] = found[d]]
    BY <1>0, <1>i, <1>9 DEF SendDone, RegistryInv, RegistryTypes
  <2>2. asked[d] = <<"sync">> /\ Tail(asked[d]) = << >> /\ << >> \in Requests
    BY <1>0, <2>1, RequestTypes DEF Requests
  <2>3. pc[d] \in {"first", "second"} /\ NoDone(wire[d]) /\ ToldOk(wire[d], found[d], globals)
    BY <1>0, <2>2, RequestTypes DEF StartOk
  <2>4. w \in Seq(Message) /\ AnsweredOk(w, found[d], globals) /\ ToldOk(w, found[d], globals)
    <3>1. Event("done", "").type = "done"
      BY DEF Event
    <3> QED BY <1>0, <2>3, <3>1, MessageTypes, SyncDone
  <2> HIDE DEF w
  <2>5. StartOk(pc[d], << >>, w, found[d], globals, globals)
    BY <2>3, <2>4 DEF StartOk
  <2>6. outcome[d] = "none"
    BY <1>0, <2>3
  <2> QED BY <1>0, <2>1, <2>2, <2>4, <2>5, <2>6, OneMoves
<1>10. ASSUME NEW g \in Needed, Change(g) PROVE RegistryInv'
  <2> DEFINE event == Event(IF g \in globals THEN "removed" ELSE "global", g)
             gs == IF g \in globals THEN globals \ {g} ELSE globals \cup {g}
  <2>1. /\ globals' = gs
        /\ wire' = [d \in Daemons |->
                      IF Registered(d) THEN Append(wire[d], event) ELSE wire[d]]
        /\ pc' = pc /\ outcome' = outcome /\ asked' = asked /\ found' = found
        /\ present' = present
    BY <1>10 DEF Change
  <2>2. /\ event \in Message /\ event.type # "done" /\ event.name = g
        /\ g \notin globals => event.type = "global"
    BY MessageTypes DEF Event
  <2>3. gs \in SUBSET Needed /\ \A x \in gs \ globals : x = g /\ g \notin globals
    BY DEF RegistryInv, RegistryTypes
  <2> HIDE DEF event, gs
  <2>4. ASSUME NEW d \in Daemons
        PROVE  /\ wire'[d] \in Seq(Message)
               /\ StartOk(pc[d], asked[d], wire'[d], found[d], present[d], gs)
    <3>1. CASE Registered(d)
      <4> DEFINE s == <<event>>
                 w == wire[d] \o s
      <4>1. /\ s \in Seq(Message) /\ NoDone(s) /\ Len(s) = 1 /\ s[1] = event
        BY <2>2 DEF NoDone
      <4>2. wire'[d] = w
        BY <1>0, <2>1, <2>2, <3>1, AppendIsConcat
      <4>3. \A x \in gs \ globals : \E i \in 1..Len(s) : IsGlobal(s[i], x)
        BY <2>2, <2>3, <4>1 DEF IsGlobal
      <4> HIDE DEF s
      <4>4. /\ w \in Seq(Message) /\ (NoDone(wire[d]) => NoDone(w))
            /\ \A r : AnsweredOk(wire[d], found[d], r) => AnsweredOk(w, found[d], r)
            /\ ToldOk(wire[d], found[d], globals)
                 => ToldOk(w, found[d], globals \cup (gs \ globals))
        BY <1>0, <4>1, <4>3, Sent
      <4> HIDE DEF w
      <4>5. ToldOk(w, found[d], globals \cup (gs \ globals)) => ToldOk(w, found[d], gs)
        BY DEF ToldOk
      <4>6. pc[d] \notin {"off", "unlink", "bind", "connect"}
        BY <3>1 DEF Registered
      <4>7. StartOk(pc[d], asked[d], w, found[d], present[d], gs)
        BY <1>0, <4>4, <4>5, <4>6 DEF StartOk
      <4> QED BY <4>2, <4>4, <4>7
    <3>2. CASE ~Registered(d)
      <4>1. wire'[d] = wire[d]
        BY <2>1, <3>2
      <4>2. ~(pc[d] \in {"first", "second", "check", "loop"}
              /\ asked[d] # <<"get_registry", "sync">>)
        BY <1>0, <3>2, RequestTypes DEF Registered
      <4> QED BY <1>0, <4>1, <4>2 DEF StartOk
    <3> QED BY <3>1, <3>2
  <2>5. RegistryTypes'
    <3>1. wire' \in [Daemons -> Seq(Message)]
      <4>1. DOMAIN wire' = Daemons /\ wire' = [d \in Daemons |-> wire'[d]]
        BY <2>1
      <4> QED BY <2>4, <4>1
    <3> QED BY <2>1, <2>3, <3>1 DEF RegistryInv, RegistryTypes
  <2> QED BY <2>1, <2>4, <2>5 DEF RegistryInv, BootFindsGlobals
<1>11. CASE Idle \/ UNCHANGED vars
  BY <1>11 DEF Idle, vars, waylandVars, RegistryInv, RegistryTypes, BootFindsGlobals
<1> QED BY <1>1, <1>2, <1>3, <1>4, <1>5, <1>6, <1>7, <1>8, <1>9, <1>10, <1>11
        DEF Next, Advance, Compositor

\* Boot gives up for want of a global only if the compositor did not offer it
\* when it answered the last roundtrip: whatever comes and goes meanwhile, the
\* events that announce what is there are dispatched before the answer.
THEOREM GlobalsFound == Spec => []BootFindsGlobals
<1>1. RegistryInv => BootFindsGlobals
  BY DEF RegistryInv
<1> QED BY <1>1, BootInit, BootStep, RegistryInit, RegistryStep, PTL DEF Spec
=============================================================================

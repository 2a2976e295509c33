--------------------------- MODULE SessionProofs ---------------------------
(***************************************************************************)
(* Proofs about a session of a worker: the future of its connection, its   *)
(* requests about entities, for any number of requests, any entities and   *)
(* queries, whatever is lost, late or refused, and its metrics, for any    *)
(* histograms, values and gauges.                                          *)
(***************************************************************************)
EXTENDS Session, FiniteSetTheorems, SequenceTheorems, WellFoundedInduction, TLAPS

-----------------------------------------------------------------------------
(* The future.                                                             *)

FutureStates ==
  { "none", "queueing", "pending", "ready", "taken", "destroyed" }

FutureType ==
  /\ kind \in Kinds \cup {"none"}
  /\ future \in FutureStates
  /\ impl \in [ there : BOOLEAN, result : BOOLEAN, moved_from : BOOLEAN ]
  /\ call \in Waiting \cup { "none", "destroy" }
  /\ told \in BOOLEAN /\ callback \in BOOLEAN /\ misuse \in BOOLEAN
  /\ owner \in { "nobody", "future", "user" }

(* There is a FutureImpl from when the C library's future is made until it *)
(* is destroyed; it has, or had, the result when the library gave it; and  *)
(* only without it does a call wait in the library.                        *)
FutureOK ==
  /\ FutureType
  /\ ~misuse
  /\ kind = "none" => future = "none" /\ owner = "nobody"
  /\ impl.there <=> future \in { "queueing", "pending", "ready", "taken" }
  /\ ~impl.there => ~impl.result /\ call = "none"
  /\ impl.there => /\ future = "taken" <=> impl.result
                   /\ impl.result <=> owner # "nobody"
                   /\ owner = "user" => impl.moved_from
  /\ future = "queueing" => callback
  /\ call \in Waiting => ~impl.result
  /\ told => impl.result

LEMMA FutureInitOK ==
  FutureInit => FutureOK
<1> SUFFICES ASSUME FutureInit
             PROVE  FutureOK
  OBVIOUS
<1>1. FutureType
  BY DEF FutureInit, FutureType, FutureStates, Kinds, Waiting
<1>2. ~impl.there /\ ~impl.result
  BY DEF FutureInit
<1> QED
  BY <1>1, <1>2 DEF FutureInit, FutureOK, Waiting

LEMMA FutureStepOK ==
  ASSUME FutureOK, FutureStep \/ FutureEnvironment
  PROVE  FutureOK'
<1> USE DEF FutureOK, FutureType, FutureStates, Kinds, Waiting
<1>1. ASSUME NEW k \in Kinds, MakeFuture(k)
      PROVE  FutureOK'
  BY <1>1 DEF MakeFuture
<1>2. ASSUME NEW c \in { "wait", "wait_some" }, Wait(c)
      PROVE  FutureOK'
  BY <1>2 DEF Wait
<1>3. CASE Get
  BY <1>3 DEF Get
<1>4. CASE Return
  BY <1>4 DEF Return
<1>5. CASE TimeOut
  BY <1>5 DEF TimeOut
<1>6. CASE Destroy
  BY <1>6 DEF Destroy
<1>7. CASE DestroyReturns
  BY <1>7 DEF DestroyReturns
<1>8. CASE QueueStatus
  BY <1>8 DEF QueueStatus
<1>9. CASE Complete
  BY <1>9 DEF Complete
<1> QED
  BY <1>1, <1>2, <1>3, <1>4, <1>5, <1>6, <1>7, <1>8, <1>9 DEF FutureStep, FutureEnvironment

LEMMA FutureFollows ==
  FutureOK => TheResultComesOnce
BY DEF FutureOK, FutureType, TheResultComesOnce

(* However the user waits for the connection, the result comes once and    *)
(* has one owner (Future::Wait, Future::Get, ~FutureImpl).                 *)
THEOREM ResultComesOnce ==
  SessionSpec => []TheResultComesOnce
<1>1. SessionInit => FutureOK
  BY FutureInitOK DEF SessionInit
<1>2. FutureOK /\ [SessionNext]_sessionVars => FutureOK'
  <2> SUFFICES ASSUME FutureOK, [SessionNext]_sessionVars
               PROVE  FutureOK'
    OBVIOUS
  <2>1. CASE FutureStep \/ FutureEnvironment
    BY <2>1, FutureStepOK
  <2>2. CASE UNCHANGED futureVars
    BY <2>2 DEF futureVars, FutureOK, FutureType
  <2> QED
    BY <2>1, <2>2 DEF SessionNext, Connecting, Using, sessionVars
<1> QED
  BY <1>1, <1>2, FutureFollows, PTL DEF SessionSpec

-----------------------------------------------------------------------------
(* Lists.                                                                  *)

Listed(s) == s \in Seq(Range(s))

LEMMA ListFacts ==
  ASSUME NEW s, Listed(s)
  PROVE  Len(s) \in Nat /\ DOMAIN s = 1 .. Len(s)
BY DEF Listed

LEMMA SequencesAreListed ==
  ASSUME NEW R, NEW t \in Seq(R)
  PROVE  Listed(t)
<1>1. Len(t) \in Nat /\ DOMAIN t = 1 .. Len(t) /\ t \in [ 1 .. Len(t) -> R ]
  OBVIOUS
<1>2. t = [ i \in 1 .. Len(t) |-> t[i] ]
  BY <1>1
<1>3. \A i \in 1 .. Len(t) : t[i] \in Range(t)
  BY <1>1 DEF Range
<1>4. t \in [ 1 .. Len(t) -> Range(t) ]
  BY <1>2, <1>3
<1>5. \A n \in Nat : \A f \in [ 1 .. n -> Range(t) ] : f \in Seq(Range(t))
  BY SeqDef
<1> QED
  BY <1>1, <1>4, <1>5 DEF Listed

LEMMA Appended ==
  ASSUME NEW s, Listed(s), NEW x
  PROVE  /\ Listed(Append(s, x)) /\ Len(s) \in Nat /\ Len(Append(s, x)) = Len(s) + 1
         /\ Append(s, x)[Len(s) + 1] = x
         /\ \A i \in 1 .. Len(s) : Append(s, x)[i] = s[i]
<1> DEFINE R == Range(s) \cup {x}
<1>1. s \in Seq(R)
  BY DEF Listed
<1>2. /\ Append(s, x) \in Seq(R) /\ Len(s) \in Nat /\ Len(Append(s, x)) = Len(s) + 1
      /\ Append(s, x)[Len(s) + 1] = x
      /\ \A i \in 1 .. Len(s) : Append(s, x)[i] = s[i]
  BY <1>1
<1> HIDE DEF R
<1> QED
  BY <1>2, SequencesAreListed

LEMMA TailListed ==
  ASSUME NEW s, Listed(s), s # << >>
  PROVE  /\ Listed(Tail(s)) /\ Len(s) \in Nat /\ Len(s) >= 1 /\ Len(Tail(s)) = Len(s) - 1
         /\ Head(s) = s[1]
         /\ \A i \in 1 .. Len(s) - 1 : Tail(s)[i] = s[i + 1]
<1> DEFINE R == Range(s)
<1>1. s \in Seq(R)
  BY DEF Listed
<1> HIDE DEF R
<1>2. /\ Tail(s) \in Seq(R) /\ Len(s) \in Nat /\ Len(s) >= 1 /\ Len(Tail(s)) = Len(s) - 1
      /\ Head(s) = s[1]
      /\ \A i \in 1 .. Len(s) - 1 : Tail(s)[i] = s[i + 1]
  BY <1>1
<1> QED
  BY <1>2, SequencesAreListed

LEMMA ListedExcept ==
  ASSUME NEW s, Listed(s), NEW k \in DOMAIN s, NEW x
  PROVE  LET t == [ s EXCEPT ![k] = x ]
         IN  /\ Listed(t) /\ Len(t) = Len(s) /\ DOMAIN t = DOMAIN s
             /\ t[k] = x
             /\ \A i \in DOMAIN s : i # k => t[i] = s[i]
<1> DEFINE t == [ s EXCEPT ![k] = x ]
           n == Len(s)
<1>1. n \in Nat /\ DOMAIN s = 1 .. n
  BY ListFacts
<1>2. /\ DOMAIN t = 1 .. n /\ t = [ i \in 1 .. n |-> t[i] ] /\ t[k] = x
      /\ \A i \in DOMAIN s : i # k => t[i] = s[i]
  BY <1>1
<1> HIDE DEF t, n
<1>3. \A i \in 1 .. n : t[i] \in Range(t)
  BY <1>2 DEF Range
<1>4. t \in [ 1 .. n -> Range(t) ]
  BY <1>2, <1>3
<1>5. t \in Seq(Range(t)) /\ Len(t) = n
  <2>1. t \in Seq(Range(t))
    BY <1>1, <1>4, SeqDef
  <2>2. Len(t) \in Nat /\ DOMAIN t = 1 .. Len(t)
    BY <2>1, ListFacts DEF Listed
  <2> QED
    BY <1>1, <1>2, <2>1, <2>2
<1> QED
  BY <1>1, <1>2, <1>5 DEF Listed, t, n

-----------------------------------------------------------------------------
(* The requests.                                                           *)

RequestKinds ==
  { "ReserveEntityId", "ReserveEntityIds", "CreateEntity", "DeleteEntity", "EntityQuery" }

AskedOK(q) ==
  /\ q.kind \in RequestKinds
  /\ q.kind = "ReserveEntityIds" => q.number \in Nat
  /\ q.kind = "CreateEntity" =>
       /\ q.entity \in NewEntities
       /\ q.Component = [ c \in DOMAIN q.entity |->
                            IF c \in ClientRegistry THEN q.entity[c] ELSE Null ]
       /\ q.entity_id = << >> \/ q.entity_id = << q.entity_id[1] >>

(* What an operation says of a request, whether that was carried out, and  *)
(* what it did.                                                            *)
Meant(op, q, carried, did) ==
  LET success == op.StatusCode = "kSuccess"
  IN  /\ op.kind = q.kind /\ q.kind \in RequestKinds
      /\ success => carried
      /\ op.kind = "ReserveEntityId" /\ success => did = {op.EntityId}
      /\ op.kind = "ReserveEntityIds" =>
           IF success
           THEN /\ op.NumberOfEntityIds = q.number
                /\ did = op.EntityId .. op.EntityId + op.NumberOfEntityIds - 1
           ELSE op.NumberOfEntityIds = 0
      /\ op.kind = "CreateEntity" /\ success =>
           /\ did = << op.EntityId, q.entity >>
           /\ q.entity_id \in { << >>, << op.EntityId >> }
      /\ op.kind = "DeleteEntity" => op.EntityId = q.entity_id

(* The same of what a callback is called with.                             *)
Heard(h, q, carried, did) ==
  LET success == h.StatusCode = "kSuccess"
  IN  /\ h.kind = q.kind
      /\ success => carried
      /\ h.kind = "ReserveEntityId" =>
           IF success THEN {h.EntityId[1]} = did ELSE h.EntityId = << >>
      /\ h.kind = "ReserveEntityIds" =>
           IF success
           THEN /\ h.NumberOfEntityIds = q.number
                /\ did = h.FirstEntityId[1] .. h.FirstEntityId[1] + h.NumberOfEntityIds - 1
           ELSE h.FirstEntityId = << >> /\ h.NumberOfEntityIds = 0
      /\ h.kind = "CreateEntity" =>
           IF success
           THEN /\ did = << h.EntityId[1], q.entity >>
                /\ q.entity_id \in { << >>, h.EntityId }
           ELSE h.EntityId = << >>
      /\ h.kind = "DeleteEntity" => h.EntityId = q.entity_id

(* An operation is of a request that no longer waits and has not been      *)
(* answered.                                                               *)
OnItsWay(op) ==
  /\ op.RequestId \in DOMAIN asked \ outstanding
  /\ heard[op.RequestId] = << >>
  /\ Meant(op, asked[op.RequestId], op.RequestId \in DOMAIN done, done[op.RequestId])

(* A request waits, or there is one operation for it, or its callback was  *)
(* called; what was carried out is not carried out again.                  *)
RequestOK ==
  /\ Listed(asked) /\ Listed(heard) /\ Listed(ops) /\ Len(heard) = Len(asked)
  /\ nextId \in Nat
  /\ network \subseteq DOMAIN asked /\ outstanding \subseteq DOMAIN asked
  /\ DOMAIN done \subseteq DOMAIN asked \ network
  /\ \A r \in DOMAIN asked : AskedOK(asked[r])
  /\ \A i \in DOMAIN ops : OnItsWay(ops[i])
  /\ \A i, j \in DOMAIN ops : i # j => ops[i].RequestId # ops[j].RequestId
  /\ \A r \in outstanding : heard[r] = << >>
  /\ \A r \in DOMAIN heard :
       heard[r] # << >> =>
         /\ heard[r] = << heard[r][1] >>
         /\ Heard(heard[r][1], asked[r], r \in DOMAIN done, done[r])


LEMMA RequestInitOK ==
  RequestInit => RequestOK
<1> SUFFICES ASSUME RequestInit
             PROVE  RequestOK
  OBVIOUS
<1>1. Listed(<< >>) /\ DOMAIN << >> = {}
  BY DEF Listed
<1>2. nextId \in Nat
  BY WorldAssumption, FS_CardinalityType DEF RequestInit
<1> QED
  BY <1>1, <1>2 DEF RequestInit, RequestOK

-----------------------------------------------------------------------------
(* What is sent.                                                           *)

LEMMA SendStep ==
  ASSUME RequestOK, NEW q, AskedOK(q), SendRequest(q)
  PROVE  RequestOK'
<1> DEFINE n == Len(asked)
<1>1. /\ asked' = Append(asked, q) /\ heard' = Append(heard, << >>)
      /\ network' = network \cup {Len(asked')} /\ outstanding' = outstanding \cup {Len(asked')}
      /\ UNCHANGED << world, reserved, nextId, ops, done >>
  BY DEF SendRequest
<1>2. /\ Listed(asked') /\ n \in Nat /\ Len(asked') = n + 1 /\ asked'[n + 1] = q
      /\ \A i \in 1 .. n : asked'[i] = asked[i]
  BY <1>1, Appended DEF RequestOK
<1>3. /\ Listed(heard') /\ Len(heard) = n /\ Len(heard') = n + 1 /\ heard'[n + 1] = << >>
      /\ \A i \in 1 .. n : heard'[i] = heard[i]
  BY <1>1, Appended DEF RequestOK
<1>4. /\ DOMAIN asked = 1 .. n /\ DOMAIN heard = 1 .. n
      /\ DOMAIN asked' = 1 .. n + 1 /\ DOMAIN heard' = 1 .. n + 1
  BY <1>2, <1>3, ListFacts DEF RequestOK
<1> HIDE DEF n
<1>5. \A i \in 1 .. n + 1 : i \in 1 .. n \/ i = n + 1
  BY <1>2
<1>6. n + 1 \in 1 .. n + 1 /\ n + 1 \notin 1 .. n /\ 1 .. n \subseteq 1 .. n + 1
  BY <1>2
<1>7. /\ network' \subseteq DOMAIN asked' /\ outstanding' \subseteq DOMAIN asked'
      /\ DOMAIN done' \subseteq DOMAIN asked' \ network'
  BY <1>1, <1>2, <1>4, <1>6 DEF RequestOK
<1>8. \A r \in DOMAIN asked' : AskedOK(asked'[r])
  BY <1>2, <1>4, <1>5 DEF RequestOK
<1>9. ASSUME NEW i \in DOMAIN ops
      PROVE  OnItsWay(ops[i])'
  <2>1. OnItsWay(ops[i])
    BY DEF RequestOK
  <2>2. ops[i].RequestId \in 1 .. n /\ ops[i].RequestId \notin outstanding
    BY <1>4, <2>1 DEF OnItsWay
  <2>3. ops[i].RequestId \in DOMAIN asked' \ outstanding'
    BY <1>1, <1>2, <1>4, <1>6, <2>2
  <2> QED
    BY <1>1, <1>2, <1>3, <2>1, <2>2, <2>3 DEF OnItsWay
<1>10. \A r \in outstanding' : heard'[r] = << >>
  BY <1>1, <1>2, <1>3, <1>4 DEF RequestOK
<1>11. ASSUME NEW r \in DOMAIN heard', heard'[r] # << >>
       PROVE  /\ heard'[r] = << heard'[r][1] >>
              /\ Heard(heard'[r][1], asked'[r], r \in DOMAIN done', done'[r])
  <2>1. r \in 1 .. n /\ heard'[r] = heard[r] /\ asked'[r] = asked[r]
    BY <1>2, <1>3, <1>4, <1>5, <1>11
  <2> QED
    BY <1>1, <1>4, <1>11, <2>1 DEF RequestOK
<1>12. /\ nextId' \in Nat /\ Listed(ops')
       /\ \A i, j \in DOMAIN ops' : i # j => ops'[i].RequestId # ops'[j].RequestId
  BY <1>1 DEF RequestOK
<1>13. \A i \in DOMAIN ops' : OnItsWay(ops[i])'
  BY <1>1, <1>9
<1> QED
  BY <1>2, <1>3, <1>7, <1>8, <1>10, <1>11, <1>12, <1>13 DEF RequestOK

-----------------------------------------------------------------------------
(* What is heard.                                                          *)

LEMMA HeardMeans ==
  ASSUME NEW op, NEW q, NEW carried, NEW did, Meant(op, q, carried, did)
  PROVE  Heard(HandleResponse(op), q, carried, did)
<1> DEFINE h == HandleResponse(op)
<1>1. op.kind \in RequestKinds /\ op.kind = q.kind /\ (op.StatusCode = "kSuccess" => carried)
  BY DEF Meant
<1>2. CASE op.kind = "ReserveEntityId"
  BY <1>1, <1>2 DEF Meant, Heard, HandleResponse, IdOfSuccess
<1>3. CASE op.kind = "ReserveEntityIds"
  BY <1>1, <1>3 DEF Meant, Heard, HandleResponse, IdOfSuccess
<1>4. CASE op.kind = "CreateEntity"
  BY <1>1, <1>4 DEF Meant, Heard, HandleResponse, IdOfSuccess
<1>5. CASE op.kind = "DeleteEntity"
  BY <1>1, <1>5 DEF Meant, Heard, HandleResponse
<1>6. CASE op.kind = "EntityQuery"
  BY <1>1, <1>6 DEF Meant, Heard, HandleResponse
<1> QED
  BY <1>1, <1>2, <1>3, <1>4, <1>5, <1>6 DEF RequestKinds

LEMMA ProcessStep ==
  ASSUME RequestOK, ProcessAnswer
  PROVE  RequestOK'
<1> DEFINE op == Head(ops)
           r == op.RequestId
<1>1. /\ ops # << >> /\ ops' = Tail(ops)
      /\ heard' = [ heard EXCEPT ![r] = Append(heard[r], HandleResponse(op)) ]
      /\ UNCHANGED << world, reserved, nextId, asked, network, outstanding, done >>
  BY DEF ProcessAnswer
<1>2. /\ Listed(ops') /\ Len(ops) \in Nat /\ Len(ops) >= 1 /\ Len(ops') = Len(ops) - 1
      /\ op = ops[1] /\ DOMAIN ops = 1 .. Len(ops) /\ DOMAIN ops' = 1 .. Len(ops) - 1
      /\ \A i \in 1 .. Len(ops) - 1 : ops'[i] = ops[i + 1]
  BY <1>1, TailListed, ListFacts DEF RequestOK
<1>3. OnItsWay(op) /\ 1 \in DOMAIN ops
  BY <1>2 DEF RequestOK
<1>4. /\ r \in DOMAIN asked \ outstanding /\ heard[r] = << >>
      /\ Heard(HandleResponse(op), asked[r], r \in DOMAIN done, done[r])
  BY <1>3, HeardMeans DEF OnItsWay
<1>5. DOMAIN heard = DOMAIN asked
  BY ListFacts DEF RequestOK
<1>6. Append(<< >>, HandleResponse(op)) = << HandleResponse(op) >>
  OBVIOUS
<1> HIDE DEF op, r
<1>7. heard' = [ heard EXCEPT ![r] = << HandleResponse(op) >> ]
  BY <1>1, <1>4, <1>6
<1>8. /\ Listed(heard') /\ Len(heard') = Len(heard) /\ DOMAIN heard' = DOMAIN heard
      /\ heard'[r] = << HandleResponse(op) >>
      /\ \A i \in DOMAIN heard : i # r => heard'[i] = heard[i]
  BY <1>4, <1>5, <1>7, ListedExcept DEF RequestOK
<1>9. \A i \in DOMAIN ops' : i + 1 \in DOMAIN ops /\ i + 1 # 1 /\ ops'[i] = ops[i + 1]
  BY <1>2
<1>10. ASSUME NEW i \in DOMAIN ops'
       PROVE  OnItsWay(ops[i])'
  <2>1. OnItsWay(ops[i + 1]) /\ ops[i + 1].RequestId # r
    BY <1>2, <1>3, <1>9 DEF RequestOK, r
  <2>2. OnItsWay(ops'[i]) /\ ops'[i].RequestId # r
    BY <1>9, <2>1
  <2> QED
    BY <1>1, <1>5, <1>8, <2>2 DEF OnItsWay
<1>11. \A i, j \in DOMAIN ops' : i # j => ops'[i].RequestId # ops'[j].RequestId
  <2> SUFFICES ASSUME NEW i \in DOMAIN ops', NEW j \in DOMAIN ops', i # j
               PROVE  ops'[i].RequestId # ops'[j].RequestId
    OBVIOUS
  <2>1. i + 1 # j + 1
    BY <1>2
  <2> QED
    BY <1>9, <2>1 DEF RequestOK
<1>12. \A x \in outstanding' : heard'[x] = << >>
  BY <1>1, <1>4, <1>5, <1>8 DEF RequestOK
<1>13. ASSUME NEW x \in DOMAIN heard', heard'[x] # << >>
       PROVE  /\ heard'[x] = << heard'[x][1] >>
              /\ Heard(heard'[x][1], asked'[x], x \in DOMAIN done', done'[x])
  <2>1. CASE x = r
    <3>1. heard'[x][1] = HandleResponse(op) /\ heard'[x] = << HandleResponse(op) >>
      BY <1>8, <2>1
    <3> QED
      BY <1>1, <1>4, <2>1, <3>1
  <2>2. CASE x # r
    BY <1>1, <1>8, <1>13, <2>2 DEF RequestOK
  <2> QED
    BY <2>1, <2>2
<1> QED
  BY <1>1, <1>2, <1>8, <1>10, <1>11, <1>12, <1>13 DEF RequestOK

-----------------------------------------------------------------------------
(* What SpatialOS does.                                                    *)

(* A request is carried out, refused or given up, and the answer is on its *)
(* way to the worker, or is not.                                           *)
LEMMA AnswerStep ==
  ASSUME RequestOK, NEW r \in DOMAIN asked, NEW op, op.RequestId = r,
         UNCHANGED << asked, heard >>, network' \subseteq network, nextId' \in Nat,
         \/ /\ r \in outstanding
            /\ outstanding' = outstanding \ {r}
            /\ ops' = Append(ops, op)
         \/ UNCHANGED << outstanding, ops >>,
         \/ done' = done
         \/ r \in network /\ r \notin network' /\ \E v : done' = With(done, r, v),
         Meant(op, asked[r], r \in DOMAIN done', done'[r])
  PROVE  RequestOK'
<1>1. \A x \in DOMAIN done : x # r \/ done' = done => x \in DOMAIN done' /\ done'[x] = done[x]
  BY DEF With
<1>2. \A x : x # r \/ done' = done => (x \in DOMAIN done' <=> x \in DOMAIN done)
  BY DEF With
<1>3. done' # done => r \in network /\ r \notin network' /\ r \notin DOMAIN done
  BY DEF RequestOK
<1>4. /\ network' \subseteq DOMAIN asked' /\ outstanding' \subseteq DOMAIN asked'
      /\ DOMAIN done' \subseteq DOMAIN asked' \ network'
  <2>1. outstanding' \subseteq outstanding
    OBVIOUS
  <2>2. network \subseteq DOMAIN asked /\ outstanding \subseteq DOMAIN asked
        /\ DOMAIN done \subseteq DOMAIN asked \ network
    BY DEF RequestOK
  <2>3. \A x \in DOMAIN done' : x \in DOMAIN asked \ network'
    BY <1>2, <1>3, <2>2
  <2> QED
    BY <2>1, <2>2, <2>3
<1>5. ASSUME NEW o, NEW x, Meant(o, asked[x], x \in DOMAIN done, done[x])
      PROVE  Meant(o, asked[x], x \in DOMAIN done', done'[x])
  <2>1. CASE x \in DOMAIN done
    <3>1. x \in DOMAIN done' /\ done'[x] = done[x]
      BY <1>1, <1>3, <2>1
    <3>2. (x \in DOMAIN done') = (x \in DOMAIN done)
      BY <2>1, <3>1
    <3> QED
      BY <1>5, <3>1, <3>2
  <2>2. CASE x \notin DOMAIN done    \* of a success alone is it said what was done
    BY <1>5, <2>2 DEF Meant
  <2> QED
    BY <2>1, <2>2
<1>6. ASSUME NEW h, NEW x, Heard(h, asked[x], x \in DOMAIN done, done[x])
      PROVE  Heard(h, asked[x], x \in DOMAIN done', done'[x])
  <2>1. CASE x \in DOMAIN done
    <3>1. x \in DOMAIN done' /\ done'[x] = done[x]
      BY <1>1, <1>3, <2>1
    <3>2. (x \in DOMAIN done') = (x \in DOMAIN done)
      BY <2>1, <3>1
    <3> QED
      BY <1>6, <3>1, <3>2
  <2>2. CASE x \notin DOMAIN done
    BY <1>6, <2>2 DEF Heard
  <2> QED
    BY <2>1, <2>2
<1>7. ASSUME NEW o, OnItsWay(o)
      PROVE  OnItsWay(o)'
  <2>1. o.RequestId \in DOMAIN asked' \ outstanding'
    BY <1>7 DEF OnItsWay
  <2>2. Meant(o, asked[o.RequestId], o.RequestId \in DOMAIN done', done'[o.RequestId])
    BY <1>5, <1>7 DEF OnItsWay
  <2> QED
    BY <1>7, <2>1, <2>2 DEF OnItsWay
<1>8. \A x \in DOMAIN heard' : heard'[x] # << >> =>
         /\ heard'[x] = << heard'[x][1] >>
         /\ Heard(heard'[x][1], asked'[x], x \in DOMAIN done', done'[x])
  BY <1>6 DEF RequestOK
<1>9. \A x \in outstanding' : heard'[x] = << >>
  BY DEF RequestOK
<1>10. /\ Listed(asked') /\ Listed(heard') /\ Len(heard') = Len(asked')
       /\ \A x \in DOMAIN asked' : AskedOK(asked'[x])
  BY DEF RequestOK
<1>11. CASE UNCHANGED << outstanding, ops >>
  <2>1. /\ Listed(ops')
        /\ \A i, j \in DOMAIN ops' : i # j => ops'[i].RequestId # ops'[j].RequestId
    BY <1>11 DEF RequestOK
  <2>2. \A i \in DOMAIN ops' : OnItsWay(ops[i])'
    BY <1>7, <1>11 DEF RequestOK
  <2> QED
    BY <1>4, <1>8, <1>9, <1>10, <2>1, <2>2 DEF RequestOK
<1>12. CASE /\ r \in outstanding
            /\ outstanding' = outstanding \ {r}
            /\ ops' = Append(ops, op)
  <2> DEFINE n == Len(ops)
  <2>1. /\ Listed(ops') /\ n \in Nat /\ Len(ops') = n + 1 /\ ops'[n + 1] = op
        /\ \A i \in 1 .. n : ops'[i] = ops[i]
    BY <1>12, Appended DEF RequestOK
  <2>2. DOMAIN ops = 1 .. n /\ DOMAIN ops' = 1 .. n + 1
    BY <2>1, ListFacts DEF RequestOK
  <2> HIDE DEF n
  <2>3. \A i \in 1 .. n + 1 : i \in 1 .. n \/ i = n + 1
    BY <2>1
  <2>4. OnItsWay(op)'
    <3>1. heard[r] = << >>
      BY <1>12 DEF RequestOK
    <3> QED
      BY <1>12, <3>1 DEF OnItsWay
  <2>5. ASSUME NEW i \in DOMAIN ops'
        PROVE  OnItsWay(ops[i])'
    <3>1. CASE i = n + 1
      <4>1. ops'[i] = op
        BY <2>1, <3>1
      <4> QED
        BY <2>4, <4>1 DEF OnItsWay
    <3>2. CASE i \in 1 .. n
      <4>1. ops'[i] = ops[i] /\ OnItsWay(ops[i])
        BY <2>1, <2>2, <3>2 DEF RequestOK
      <4>2. PICK o : o = ops[i]
        OBVIOUS
      <4>3. OnItsWay(o)' /\ ops'[i] = o
        BY <1>7, <4>1, <4>2
      <4> QED
        BY <4>3 DEF OnItsWay
    <3> QED
      BY <2>2, <2>3, <3>1, <3>2
  <2>6. \A i \in 1 .. n : ops[i].RequestId # r
    <3>1. \A i \in 1 .. n : OnItsWay(ops[i])
      BY <2>2 DEF RequestOK
    <3> QED
      BY <1>12, <3>1 DEF OnItsWay
  <2>7. \A i, j \in DOMAIN ops' : i # j => ops'[i].RequestId # ops'[j].RequestId
    <3> SUFFICES ASSUME NEW i \in DOMAIN ops', NEW j \in DOMAIN ops', i # j
                 PROVE  ops'[i].RequestId # ops'[j].RequestId
      OBVIOUS
    <3>1. CASE i \in 1 .. n /\ j \in 1 .. n
      BY <2>1, <2>2, <3>1 DEF RequestOK
    <3>2. CASE i \in 1 .. n /\ j = n + 1
      BY <2>1, <2>6, <3>2
    <3>3. CASE i = n + 1 /\ j \in 1 .. n
      BY <2>1, <2>6, <3>3
    <3> QED
      BY <2>2, <2>3, <3>1, <3>2, <3>3
  <2> QED
    BY <1>4, <1>8, <1>9, <1>10, <2>1, <2>5, <2>7 DEF RequestOK
<1> QED
  BY <1>11, <1>12

LEMMA FailureMeans ==
  ASSUME NEW r, asked[r].kind \in RequestKinds, NEW status, status # "kSuccess",
         NEW carried, NEW did
  PROVE  Meant(Failure(r, status), asked[r], carried, did)
BY DEF Meant, Failure

(* The fields of an operation of a success.                                *)
LEMMA SuccessFields ==
  ASSUME NEW r, NEW status
  PROVE  LET op == Failure(r, status)
         IN  /\ op.kind = asked[r].kind /\ op.RequestId = r /\ op.StatusCode = status
             /\ asked[r].kind = "DeleteEntity" => op.EntityId = asked[r].entity_id
             /\ \A id, number :
                  LET with == [ op EXCEPT !.EntityId = id, !.NumberOfEntityIds = number ]
                  IN  /\ with.kind = asked[r].kind /\ with.RequestId = r
                      /\ with.StatusCode = status
                      /\ with.EntityId = id /\ with.NumberOfEntityIds = number
             /\ \A id :
                  LET with == [ op EXCEPT !.EntityId = id ]
                  IN  /\ with.kind = asked[r].kind /\ with.RequestId = r
                      /\ with.StatusCode = status /\ with.EntityId = id
             /\ \A count, result :
                  LET with == [ op EXCEPT !.ResultCount = count, !.Result = result ]
                  IN  /\ with.kind = asked[r].kind /\ with.RequestId = r
                      /\ with.StatusCode = status
                      /\ with.EntityId = op.EntityId
                      /\ with.NumberOfEntityIds = op.NumberOfEntityIds
BY DEF Failure

LEMMA WithFields ==
  ASSUME NEW map, NEW k, NEW v
  PROVE  k \in DOMAIN With(map, k, v) /\ With(map, k, v)[k] = v
BY DEF With

LEMMA RequestFields ==
  ASSUME RequestOK, NEW r \in network
  PROVE  r \in DOMAIN asked /\ AskedOK(asked[r]) /\ asked[r].kind \in RequestKinds
         /\ nextId \in Nat
BY DEF RequestOK, AskedOK

LEMMA ReserveIdsStep ==
  ASSUME RequestOK, NEW r \in network, ReserveIds(r)
  PROVE  RequestOK'
<1> DEFINE q == asked[r]
           number == IF q.kind = "ReserveEntityId" THEN 1 ELSE q.number
           ids == nextId .. nextId + number - 1
           op == [ Failure(r, "kSuccess") EXCEPT !.EntityId = nextId,
                                                 !.NumberOfEntityIds = number ]
<1>1. /\ q.kind \in { "ReserveEntityId", "ReserveEntityIds" }
      /\ nextId' = nextId + number
      /\ done' = With(done, r, ids)
      /\ Resolve(r, op)
  BY DEF ReserveIds
<1>2. r \in DOMAIN asked /\ AskedOK(q) /\ nextId \in Nat
  BY RequestFields
<1>3. number \in Nat
  BY <1>1, <1>2 DEF AskedOK
<1>4. /\ op.kind = q.kind /\ op.RequestId = r /\ op.StatusCode = "kSuccess"
      /\ op.EntityId = nextId /\ op.NumberOfEntityIds = number
  BY SuccessFields
<1>5. q.kind = "ReserveEntityId" => ids = {nextId}
  BY <1>2
<1>6. r \in DOMAIN done' /\ done'[r] = ids
  BY <1>1, WithFields
<1>7. nextId' \in Nat
  BY <1>1, <1>2, <1>3
<1>8. q.kind = "ReserveEntityIds" => number = q.number
  OBVIOUS
<1>9. /\ UNCHANGED << asked, heard >> /\ network' \subseteq network /\ r \notin network'
      /\ \/ /\ r \in outstanding
            /\ outstanding' = outstanding \ {r}
            /\ ops' = Append(ops, op)
         \/ UNCHANGED << outstanding, ops >>
  BY <1>1 DEF Resolve
<1> HIDE DEF op, number
<1>10. Meant(op, q, r \in DOMAIN done', done'[r])
  BY <1>1, <1>4, <1>5, <1>6, <1>8 DEF Meant, RequestKinds
<1>11. \E v : done' = With(done, r, v)
  BY <1>1
<1> QED
  BY <1>2, <1>4, <1>7, <1>9, <1>10, <1>11, AnswerStep

LEMMA CreateEntityStep ==
  ASSUME RequestOK, NEW r \in network, CreateEntity(r)
  PROVE  RequestOK'
<1> DEFINE q == asked[r]
           given == q.entity_id
           id == IF given = << >> THEN nextId ELSE given[1]
           op == [ Failure(r, "kSuccess") EXCEPT !.EntityId = id ]
<1>1. /\ q.kind = "CreateEntity"
      /\ Null \notin Range(q.Component)
      /\ nextId' = IF given = << >> THEN nextId + 1 ELSE nextId
      /\ done' = With(done, r, << id, q.Component >>)
      /\ Resolve(r, op)
  BY DEF CreateEntity
<1>2. r \in DOMAIN asked /\ AskedOK(q) /\ nextId \in Nat
  BY RequestFields
<1>3. /\ op.kind = q.kind /\ op.RequestId = r /\ op.StatusCode = "kSuccess"
      /\ op.EntityId = id
  BY SuccessFields
<1>4. q.Component = q.entity
  <2> DEFINE e == q.entity
             c == q.Component
  <2>1. /\ e = [ x \in DOMAIN e |-> e[x] ]
        /\ c = [ x \in DOMAIN e |-> IF x \in ClientRegistry THEN e[x] ELSE Null ]
    BY <1>1, <1>2, WorldAssumption DEF AskedOK
  <2> HIDE DEF e, c
  <2>2. ASSUME NEW x \in DOMAIN e
        PROVE  c[x] = e[x]
    <3>1. c[x] \in Range(c)
      BY <2>1 DEF Range
    <3>2. c[x] # Null
      BY <1>1, <3>1 DEF c
    <3> QED
      BY <2>1, <3>2
  <2>3. c = e
    BY <2>1, <2>2
  <2> QED
    BY <2>3 DEF c, e
<1>5. given \in { << >>, << id >> }
  BY <1>1, <1>2 DEF AskedOK
<1>6. r \in DOMAIN done' /\ done'[r] = << id, q.entity >>
  BY <1>1, <1>4, WithFields
<1>7. nextId' \in Nat
  BY <1>1, <1>2
<1>8. /\ UNCHANGED << asked, heard >> /\ network' \subseteq network /\ r \notin network'
      /\ \/ /\ r \in outstanding
            /\ outstanding' = outstanding \ {r}
            /\ ops' = Append(ops, op)
         \/ UNCHANGED << outstanding, ops >>
  BY <1>1 DEF Resolve
<1> HIDE DEF op, id
<1>9. Meant(op, q, r \in DOMAIN done', done'[r])
  BY <1>1, <1>3, <1>5, <1>6 DEF Meant, RequestKinds
<1>10. \E v : done' = With(done, r, v)
  BY <1>1
<1> QED
  BY <1>2, <1>3, <1>7, <1>8, <1>9, <1>10, AnswerStep

LEMMA DeleteEntityStep ==
  ASSUME RequestOK, NEW r \in network, DeleteEntity(r)
  PROVE  RequestOK'
<1> DEFINE q == asked[r]
           op == Failure(r, "kSuccess")
<1>1. /\ q.kind = "DeleteEntity"
      /\ done' = With(done, r, q.entity_id)
      /\ Resolve(r, op) /\ nextId' = nextId
  BY DEF DeleteEntity
<1>2. r \in DOMAIN asked /\ nextId' \in Nat
  BY <1>1, RequestFields
<1>3. /\ op.kind = q.kind /\ op.RequestId = r /\ op.EntityId = q.entity_id
  BY <1>1, SuccessFields
<1>4. r \in DOMAIN done'
  BY <1>1, WithFields
<1>5. /\ UNCHANGED << asked, heard >> /\ network' \subseteq network /\ r \notin network'
      /\ \/ /\ r \in outstanding
            /\ outstanding' = outstanding \ {r}
            /\ ops' = Append(ops, op)
         \/ UNCHANGED << outstanding, ops >>
  BY <1>1 DEF Resolve
<1> HIDE DEF op
<1>6. Meant(op, q, r \in DOMAIN done', done'[r])
  BY <1>1, <1>3, <1>4 DEF Meant, RequestKinds
<1>7. \E v : done' = With(done, r, v)
  BY <1>1
<1> QED
  BY <1>2, <1>3, <1>5, <1>6, <1>7, AnswerStep

LEMMA AnswerQueryStep ==
  ASSUME RequestOK, NEW r \in network, NEW status, AnswerQuery(r, status)
  PROVE  RequestOK'
<1> DEFINE q == asked[r]
<1>1. PICK count, result :
        /\ q.kind = "EntityQuery"
        /\ \E v : done' = With(done, r, v)
        /\ Resolve(r, [ Failure(r, status) EXCEPT !.ResultCount = count, !.Result = result ])
        /\ nextId' = nextId
  BY DEF AnswerQuery
<1> DEFINE op == [ Failure(r, status) EXCEPT !.ResultCount = count, !.Result = result ]
<1>2. r \in DOMAIN asked /\ nextId' \in Nat
  BY <1>1, RequestFields
<1>3. op.kind = q.kind /\ op.RequestId = r
  BY SuccessFields
<1>4. r \in DOMAIN done'
  BY <1>1, WithFields
<1>5. /\ UNCHANGED << asked, heard >> /\ network' \subseteq network /\ r \notin network'
      /\ \/ /\ r \in outstanding
            /\ outstanding' = outstanding \ {r}
            /\ ops' = Append(ops, op)
         \/ UNCHANGED << outstanding, ops >>
  BY <1>1 DEF Resolve
<1> HIDE DEF op
<1>6. Meant(op, q, r \in DOMAIN done', done'[r])
  BY <1>1, <1>3, <1>4 DEF Meant, RequestKinds
<1> QED
  BY <1>1, <1>2, <1>3, <1>5, <1>6, AnswerStep

LEMMA RefuseStep ==
  ASSUME RequestOK, NEW r \in network, Refuse(r)
  PROVE  RequestOK'
<1> DEFINE op == Failure(r, "kApplicationError")
<1>1. Resolve(r, op) /\ UNCHANGED << nextId, done >>
  BY DEF Refuse
<1>2. r \in DOMAIN asked /\ asked[r].kind \in RequestKinds /\ nextId' \in Nat
  BY <1>1, RequestFields
<1>3. op.RequestId = r
  BY SuccessFields
<1>4. Meant(op, asked[r], r \in DOMAIN done', done'[r])
  BY <1>2, FailureMeans
<1>5. /\ UNCHANGED << asked, heard >> /\ network' \subseteq network
      /\ \/ /\ r \in outstanding
            /\ outstanding' = outstanding \ {r}
            /\ ops' = Append(ops, op)
         \/ UNCHANGED << outstanding, ops >>
  BY <1>1 DEF Resolve
<1> HIDE DEF op
<1> QED
  BY <1>1, <1>2, <1>3, <1>4, <1>5, AnswerStep

LEMMA TimeOutStep ==
  ASSUME RequestOK, NEW r \in outstanding, TimeOutRequest(r)
  PROVE  RequestOK'
<1> DEFINE op == Failure(r, "kTimeout")
<1>1. /\ r \in outstanding
      /\ outstanding' = outstanding \ {r}
      /\ ops' = Append(ops, op)
      /\ UNCHANGED << nextId, asked, network, heard, done >>
  BY DEF TimeOutRequest
<1>2. r \in DOMAIN asked /\ asked[r].kind \in RequestKinds /\ nextId' \in Nat
  BY <1>1 DEF RequestOK, AskedOK
<1>3. op.RequestId = r
  BY SuccessFields
<1>4. Meant(op, asked[r], r \in DOMAIN done', done'[r])
  BY <1>2, FailureMeans
<1> HIDE DEF op
<1> QED
  BY <1>1, <1>2, <1>3, <1>4, AnswerStep

LEMMA RequestStepOK ==
  ASSUME RequestOK, RequestStep \/ RequestEnvironment
  PROVE  RequestOK'
<1>1. CASE SendReserveEntityIdRequest
  <2>1. AskedOK([ kind |-> "ReserveEntityId" ])
    BY DEF AskedOK, RequestKinds
  <2> QED
    BY <1>1, <2>1, SendStep DEF SendReserveEntityIdRequest
<1>2. CASE SendReserveEntityIdsRequest(2)
  <2>1. AskedOK([ kind |-> "ReserveEntityIds", number |-> 2 ])
    BY DEF AskedOK, RequestKinds
  <2> QED
    BY <1>2, <2>1, SendStep DEF SendReserveEntityIdsRequest
<1>3. ASSUME NEW entity \in NewEntities, NEW id \in { << i >> : i \in OwnIds } \cup { << >> },
             SendCreateEntityRequest(entity, id)
      PROVE  RequestOK'
  <2> DEFINE q == [ kind |-> "CreateEntity", entity |-> entity, entity_id |-> id,
                    Component |-> [ c \in DOMAIN entity |->
                                      IF c \in ClientRegistry THEN entity[c] ELSE Null ] ]
  <2>1. /\ q.kind = "CreateEntity" /\ q.entity = entity /\ q.entity_id = id
        /\ q.Component = [ c \in DOMAIN entity |->
                             IF c \in ClientRegistry THEN entity[c] ELSE Null ]
    OBVIOUS
  <2>2. SendRequest(q)
    BY <1>3 DEF SendCreateEntityRequest
  <2>3. id = << >> \/ id = << id[1] >>
    OBVIOUS
  <2> HIDE DEF q
  <2>4. AskedOK(q)
    BY <2>1, <2>3 DEF AskedOK, RequestKinds
  <2> QED
    BY <2>2, <2>4, SendStep
<1>4. ASSUME NEW id, SendDeleteEntityRequest(id)
      PROVE  RequestOK'
  <2>1. AskedOK([ kind |-> "DeleteEntity", entity_id |-> id ])
    BY DEF AskedOK, RequestKinds
  <2> QED
    BY <1>4, <2>1, SendStep DEF SendDeleteEntityRequest
<1>5. ASSUME NEW query, SendEntityQueryRequest(query)
      PROVE  RequestOK'
  <2>1. AskedOK([ kind |-> "EntityQuery", query |-> query, protocol |-> ProtocolQuery(query) ])
    BY DEF AskedOK, RequestKinds
  <2> QED
    BY <1>5, <2>1, SendStep DEF SendEntityQueryRequest
<1>6. CASE ProcessAnswer
  BY <1>6, ProcessStep
<1>7. CASE RequestEnvironment
  <2>1. ASSUME NEW r \in network, ReserveIds(r)
        PROVE  RequestOK'
    BY <2>1, ReserveIdsStep
  <2>2. ASSUME NEW r \in network, CreateEntity(r)
        PROVE  RequestOK'
    BY <2>2, CreateEntityStep
  <2>3. ASSUME NEW r \in network, DeleteEntity(r)
        PROVE  RequestOK'
    BY <2>3, DeleteEntityStep
  <2>4. ASSUME NEW r \in network, Refuse(r)
        PROVE  RequestOK'
    BY <2>4, RefuseStep
  <2>5. ASSUME NEW r \in network, NEW status, AnswerQuery(r, status)
        PROVE  RequestOK'
    BY <2>5, AnswerQueryStep
  <2>6. ASSUME NEW r \in outstanding, TimeOutRequest(r)
        PROVE  RequestOK'
    BY <2>6, TimeOutStep
  <2> QED
    BY <1>7, <2>1, <2>2, <2>3, <2>4, <2>5, <2>6 DEF RequestEnvironment
<1> QED
  BY <1>1, <1>2, <1>3, <1>4, <1>5, <1>6, <1>7 DEF RequestStep

LEMMA RequestFollows ==
  RequestOK => AnswersMeanWhatTheySay
<1> SUFFICES ASSUME RequestOK
             PROVE  AnswersMeanWhatTheySay
  OBVIOUS
<1>1. ASSUME NEW r \in DOMAIN heard
      PROVE  Len(heard[r]) <= 1
  <2>1. heard[r] = << >> \/ heard[r] = << heard[r][1] >>
    BY DEF RequestOK
  <2>2. \A h : Len(<< h >>) = 1
    OBVIOUS
  <2>3. Len(<< >>) = 0
    OBVIOUS
  <2>4. Len(heard[r]) = 0 \/ Len(heard[r]) = 1
    BY <2>1, <2>2, <2>3, Zenon
  <2>5. \A n : n = 0 \/ n = 1 => n <= 1
    OBVIOUS
  <2> QED
    BY <2>4, <2>5, Zenon
<1>2. ASSUME NEW r \in DOMAIN heard, heard[r] # << >>
      PROVE  Heard(heard[r][1], asked[r], r \in DOMAIN done, done[r])
  BY <1>2 DEF RequestOK
<1> QED
  BY <1>1, <1>2 DEF AnswersMeanWhatTheySay, Heard

(* A callback is called at most once for a request, and is told the truth  *)
(* of it: the ids of a success are those that were reserved or created for *)
(* this request, and without a success it is told of none (Connection::    *)
(* Send...Request and the handlers of the answers).                        *)
THEOREM AnswersAreTrue ==
  SessionSpec => []AnswersMeanWhatTheySay
<1>1. SessionInit => RequestOK
  BY RequestInitOK DEF SessionInit
<1>2. RequestOK /\ [SessionNext]_sessionVars => RequestOK'
  <2> SUFFICES ASSUME RequestOK, [SessionNext]_sessionVars
               PROVE  RequestOK'
    OBVIOUS
  <2>1. CASE RequestStep \/ RequestEnvironment
    BY <2>1, RequestStepOK
  <2>2. CASE UNCHANGED requestVars
    BY <2>2 DEF requestVars, RequestOK, OnItsWay
  <2> QED
    BY <2>1, <2>2 DEF SessionNext, Connecting, Using, sessionVars
<1> QED
  BY <1>1, <1>2, RequestFollows, PTL DEF SessionSpec

-----------------------------------------------------------------------------
(* Functions that are defined by recursion on the places of a list.        *)

LEMMA LeastNatural ==
  ASSUME NEW T \in SUBSET Nat, T # {}
  PROVE  \E x \in T : \A y \in T : x <= y
<1> DEFINE R == OpToRel(<, Nat)
<1>1. \A x, y \in Nat : << y, x >> \in R <=> y < x
  BY DEF OpToRel
<1> HIDE DEF R
<1>2. IsWellFoundedOn(R, Nat)
  BY NatLessThanWellFounded DEF R
<1>3. PICK x \in T : \A y \in T : ~ (<< y, x >> \in R)
  BY <1>2, WFMin
<1>4. x \in Nat /\ \A y \in T : y \in Nat
  OBVIOUS
<1>5. \A y \in T : ~ (y < x)
  BY <1>1, <1>3, <1>4, Zenon
<1> QED
  BY <1>4, <1>5

(* The steps G lead f from b.                                              *)
Runs(n, b, G, f) == f[0] = b /\ \A i \in 1 .. n : f[i] = G[<< i, f[i - 1] >>]

LEMMA RunExtends ==
  ASSUME NEW S, NEW b \in S, NEW n \in Nat, NEW G, NEW f \in [ 0 .. n -> S ], Runs(n, b, G, f),
         \A x \in S : G[<< n + 1, x >>] \in S
  PROVE  \E g \in [ 0 .. n + 1 -> S ] : Runs(n + 1, b, G, g)
<1> DEFINE d == G[<< n + 1, f[n] >>]
           g == [ i \in 0 .. n + 1 |-> IF i <= n THEN f[i] ELSE d ]
<1>1. d \in S
  OBVIOUS
<1> HIDE DEF d
<1>2. g \in [ 0 .. n + 1 -> S ] /\ g[n + 1] = d /\ \A i \in 0 .. n : g[i] = f[i]
  BY <1>1
<1> HIDE DEF g
<1>3. ASSUME NEW i \in 1 .. n + 1
      PROVE  g[i] = G[<< i, g[i - 1] >>]
  <2>1. CASE i \in 1 .. n
    BY <1>2, <2>1 DEF Runs
  <2>2. CASE i = n + 1
    BY <1>2, <2>2 DEF d
  <2> QED
    BY <2>1, <2>2
<1>4. g[0] = b
  BY <1>2 DEF Runs
<1> QED
  BY <1>2, <1>3, <1>4 DEF Runs

LEMMA RunExists ==
  ASSUME NEW S, NEW b \in S, NEW n \in Nat, NEW G,
         \A i \in 1 .. n : \A x \in S : G[<< i, x >>] \in S
  PROVE  \E f \in [ 0 .. n -> S ] : Runs(n, b, G, f)
<1> DEFINE T == { l \in 0 .. n : ~ \E f \in [ 0 .. l -> S ] : Runs(l, b, G, f) }
<1>1. SUFFICES ASSUME T # {}
               PROVE  FALSE
  OBVIOUS
<1>2. T \in SUBSET Nat
  OBVIOUS
<1>3. PICK l \in T : \A j \in T : l <= j
  BY <1>1, <1>2, LeastNatural
<1>4. l \in 0 .. n /\ ~ \E f \in [ 0 .. l -> S ] : Runs(l, b, G, f)
  OBVIOUS
<1>5. l # 0
  <2> DEFINE f == [ i \in 0 .. 0 |-> b ]
  <2>1. f \in [ 0 .. 0 -> S ] /\ f[0] = b
    OBVIOUS
  <2> HIDE DEF f
  <2>2. Runs(0, b, G, f)
    BY <2>1 DEF Runs
  <2> QED
    BY <1>4, <2>1, <2>2
<1>6. PICK k \in Nat : k \in 0 .. n /\ l = k + 1
  <2>1. l - 1 \in Nat /\ l - 1 \in 0 .. n /\ l = (l - 1) + 1
    BY <1>4, <1>5
  <2> QED
    BY <2>1
<1>7. k \notin T
  BY <1>3, <1>6
<1>8. PICK f \in [ 0 .. k -> S ] : Runs(k, b, G, f)
  BY <1>6, <1>7
<1>9. \A x \in S : G[<< k + 1, x >>] \in S
  BY <1>4, <1>5, <1>6
<1> HIDE DEF T
<1>10. \E g \in [ 0 .. k + 1 -> S ] : Runs(k + 1, b, G, g)
  BY <1>8, <1>9, RunExtends
<1> QED
  BY <1>4, <1>6, <1>10

LEMMA RunIsOne ==
  ASSUME NEW n \in Nat, NEW b, NEW G, NEW f, NEW g, Runs(n, b, G, f), Runs(n, b, G, g)
  PROVE  f[n] = g[n]
<1> DEFINE T == { i \in 0 .. n : f[i] # g[i] }
<1>1. SUFFICES ASSUME T # {}
               PROVE  FALSE
  OBVIOUS
<1>2. T \in SUBSET Nat
  OBVIOUS
<1>3. PICK i \in T : \A j \in T : i <= j
  BY <1>1, <1>2, LeastNatural
<1>4. i \in 0 .. n /\ f[i] # g[i]
  OBVIOUS
<1>5. i # 0
  BY <1>4 DEF Runs
<1>6. i \in 1 .. n /\ i - 1 \in 0 .. n
  BY <1>4, <1>5
<1>7. i - 1 \notin T
  BY <1>3, <1>6
<1>8. f[i - 1] = g[i - 1]
  BY <1>6, <1>7
<1>9. f[i] = G[<< i, f[i - 1] >>] /\ g[i] = G[<< i, g[i - 1] >>]
  BY <1>6 DEF Runs
<1> QED
  BY <1>4, <1>8, <1>9

LEMMA RunsAtLess ==
  ASSUME NEW n \in Nat, NEW k \in 0 .. n, NEW b, NEW G, NEW f, Runs(n, b, G, f)
  PROVE  Runs(k, b, G, f)
<1>1. \A i \in 1 .. k : i \in 1 .. n
  OBVIOUS
<1> QED
  BY <1>1 DEF Runs

(* Sums.                                                                   *)
Adding(values) == [ p \in (1 .. Len(values)) \X Int |-> p[2] + values[p[1]] ]

LEMMA AddingIs ==
  ASSUME NEW values \in Seq(Int), NEW i \in 1 .. Len(values), NEW x \in Int
  PROVE  Adding(values)[<< i, x >>] = x + values[i] /\ x + values[i] \in Int
BY DEF Adding

LEMMA TotalRuns ==
  ASSUME NEW values \in Seq(Int)
  PROVE  \E f \in [ 0 .. Len(values) -> Int ] :
           Runs(Len(values), 0, Adding(values), f) /\ Total(values) = f[Len(values)]
<1> DEFINE n == Len(values)
           G == Adding(values)
           Body(g) == [ i \in 0 .. n |-> IF i = 0 THEN 0 ELSE g[i - 1] + values[i] ]
           sum == CHOOSE g : g = Body(g)
<1>1. n \in Nat /\ 0 \in Int
  OBVIOUS
<1>2. \A i \in 1 .. n : \A x \in Int : G[<< i, x >>] = x + values[i] /\ G[<< i, x >>] \in Int
  BY AddingIs
<1>3. Total(values) = sum[n]
  BY DEF Total
<1> HIDE DEF n, G
<1>4. PICK f \in [ 0 .. n -> Int ] : Runs(n, 0, G, f)
  BY <1>1, <1>2, RunExists
<1>5. f[0] = 0 /\ \A i \in 1 .. n : f[i] = f[i - 1] + values[i]
  <2>1. \A i \in 1 .. n : f[i - 1] \in Int
    BY <1>1
  <2>2. f[0] = 0 /\ \A i \in 1 .. n : f[i] = G[<< i, f[i - 1] >>]
    BY <1>4 DEF Runs
  <2> QED
    BY <1>2, <2>1, <2>2, Zenon
<1>6. f = Body(f)
  <2>1. f = [ i \in 0 .. n |-> f[i] ]
    OBVIOUS
  <2>2. \A i \in 0 .. n : (IF i = 0 THEN 0 ELSE f[i - 1] + values[i]) = f[i]
    BY <1>1, <1>5
  <2> QED
    BY <2>1, <2>2
<1>7. sum = Body(sum)
  <2> HIDE DEF Body
  <2> QED
    BY <1>6
<1>8. sum[0] = 0 /\ \A i \in 1 .. n : sum[i] = sum[i - 1] + values[i]
  <2> PICK g : g = sum
    OBVIOUS
  <2>1. g = Body(g)
    BY <1>7
  <2> HIDE DEF sum
  <2>2. g[0] = 0 /\ \A i \in 1 .. n : g[i] = g[i - 1] + values[i]
    BY <1>1, <2>1
  <2> QED
    BY <2>2
<1> HIDE DEF sum, Body
<1>9. sum[n] = f[n]
  <2> PICK g : g = sum
    OBVIOUS
  <2> DEFINE T == { i \in 0 .. n : f[i] # g[i] }
  <2>1. SUFFICES ASSUME T # {}
                 PROVE  FALSE
    BY <1>1
  <2>2. T \in SUBSET Nat
    OBVIOUS
  <2>3. PICK i \in T : \A j \in T : i <= j
    BY <2>1, <2>2, LeastNatural
  <2>4. i \in 0 .. n /\ f[i] # g[i]
    OBVIOUS
  <2>5. i # 0
    BY <1>5, <1>8, <2>4
  <2>6. i \in 1 .. n /\ i - 1 \in 0 .. n
    BY <1>1, <2>4, <2>5
  <2>7. i - 1 \notin T
    BY <2>3, <2>6
  <2>8. f[i - 1] = g[i - 1]
    BY <2>6, <2>7
  <2>9. g[i] = g[i - 1] + values[i] /\ f[i] = f[i - 1] + values[i]
    BY <1>5, <1>8, <2>6
  <2> QED
    BY <2>4, <2>8, <2>9
<1> QED
  BY <1>3, <1>4, <1>9 DEF n, G

LEMMA TotalOfNone == Total(<< >>) = 0
<1>1. << >> \in Seq(Int) /\ Len(<< >>) = 0
  OBVIOUS
<1> QED
  BY <1>1, TotalRuns DEF Runs

LEMMA TotalAppended ==
  ASSUME NEW values \in Seq(Int), NEW v \in Int
  PROVE  Total(values) \in Int /\ Total(Append(values, v)) = Total(values) + v
<1> DEFINE n == Len(values)
           more == Append(values, v)
           G == Adding(values)
           H == Adding(more)
<1>1. /\ n \in Nat /\ more \in Seq(Int) /\ Len(more) = n + 1 /\ more[n + 1] = v
      /\ \A i \in 1 .. n : more[i] = values[i]
  OBVIOUS
<1>2. PICK f \in [ 0 .. n -> Int ] : Runs(n, 0, G, f) /\ Total(values) = f[n]
  BY TotalRuns
<1> HIDE DEF more
<1>3. PICK g \in [ 0 .. Len(more) -> Int ] :
        Runs(Len(more), 0, Adding(more), g) /\ Total(more) = g[Len(more)]
  BY <1>1, TotalRuns
<1>4. Runs(n + 1, 0, H, g) /\ Total(more) = g[n + 1] /\ g \in [ 0 .. n + 1 -> Int ]
  BY <1>1, <1>3
<1>5. \A i \in 1 .. n : \A x \in Int : G[<< i, x >>] = H[<< i, x >>]
  <2>1. \A i \in 1 .. n : \A x \in Int : G[<< i, x >>] = x + values[i]
    BY AddingIs
  <2>2. \A i \in 1 .. n : i \in 1 .. Len(more)
    BY <1>1
  <2>3. \A i \in 1 .. n : \A x \in Int : H[<< i, x >>] = x + more[i]
    BY <1>1, <2>2, AddingIs
  <2>4. \A i \in 1 .. n : more[i] = values[i]
    BY <1>1
  <2> HIDE DEF n, G, H
  <2> QED
    BY <2>1, <2>3, <2>4, Zenon
<1>6. \A x \in Int : H[<< n + 1, x >>] = x + v
  <2>1. n + 1 \in 1 .. Len(more)
    BY <1>1
  <2> QED
    BY <1>1, <2>1, AddingIs
<1> HIDE DEF n, G, H
<1>7. Runs(n, 0, H, f)
  <2>1. \A i \in 1 .. n : f[i - 1] \in Int
    BY <1>1, <1>2
  <2> QED
    BY <1>2, <1>5, <2>1 DEF Runs
<1>8. Runs(n, 0, H, g)
  <2> DEFINE l == n + 1
  <2>1. l \in Nat /\ n \in 0 .. l /\ Runs(l, 0, H, g)
    BY <1>1, <1>4
  <2> HIDE DEF l
  <2> QED
    BY <2>1, RunsAtLess
<1>9. f[n] = g[n]
  BY <1>1, <1>7, <1>8, RunIsOne
<1>10. g[n + 1] = H[<< n + 1, g[n] >>]
  <2>1. n + 1 \in 1 .. n + 1 /\ (n + 1) - 1 = n
    BY <1>1
  <2> QED
    BY <1>4, <2>1 DEF Runs
<1>11. f[n] \in Int
  BY <1>1, <1>2
<1> QED
  BY <1>2, <1>4, <1>6, <1>9, <1>10, <1>11 DEF more

-----------------------------------------------------------------------------
(* The array of all buckets.                                               *)

Joins(f, b, N) ==
  /\ f[0] = << >>
  /\ \A i \in 1 .. N : f[i] = f[i - 1] \o b[i]
  /\ \A n \in 0 .. N : BucketData(b, n) = f[n]

LEMMA BucketDataRuns ==
  ASSUME NEW R, NEW N \in Nat, NEW b, \A i \in 1 .. N : b[i] \in Seq(R)
  PROVE  \E f \in [ 0 .. N -> Seq(R) ] : Joins(f, b, N)
<1> DEFINE G == [ p \in (1 .. N) \X Seq(R) |-> p[2] \o b[p[1]] ]
<1>1. \A i \in 1 .. N : \A x \in Seq(R) : G[<< i, x >>] = x \o b[i] /\ G[<< i, x >>] \in Seq(R)
  <2> SUFFICES ASSUME NEW i \in 1 .. N, NEW x \in Seq(R)
               PROVE  G[<< i, x >>] = x \o b[i] /\ G[<< i, x >>] \in Seq(R)
    OBVIOUS
  <2>1. b[i] \in Seq(R)
    OBVIOUS
  <2>2. x \o b[i] \in Seq(R)
    BY <2>1
  <2>3. << i, x >> \in (1 .. N) \X Seq(R) /\ << i, x >>[1] = i /\ << i, x >>[2] = x
    OBVIOUS
  <2> HIDE <2>1
  <2>4. G[<< i, x >>] = x \o b[i]
    BY <2>3, Zenon
  <2> QED
    BY <2>2, <2>4
<1>2. << >> \in Seq(R)
  OBVIOUS
<1> HIDE DEF G
<1>3. PICK f \in [ 0 .. N -> Seq(R) ] : Runs(N, << >>, G, f)
  BY <1>1, <1>2, RunExists
<1>4. f[0] = << >> /\ \A i \in 1 .. N : f[i] = f[i - 1] \o b[i]
  <2>1. \A i \in 1 .. N : f[i - 1] \in Seq(R)
    OBVIOUS
  <2>2. f[0] = << >> /\ \A i \in 1 .. N : f[i] = G[<< i, f[i - 1] >>]
    BY <1>3 DEF Runs
  <2> QED
    BY <1>1, <2>1, <2>2, Zenon
<1>5. ASSUME NEW n \in 0 .. N
      PROVE  BucketData(b, n) = f[n]
  <2> DEFINE Body(g) == [ i \in 0 .. n |-> IF i = 0 THEN << >> ELSE g[i - 1] \o b[i] ]
             data == CHOOSE g : g = Body(g)
             part == [ i \in 0 .. n |-> f[i] ]
  <2>1. BucketData(b, n) = data[n]
    BY DEF BucketData
  <2>2. part = Body(part)
    <3>1. \A i \in 0 .. n : (IF i = 0 THEN << >> ELSE part[i - 1] \o b[i]) = f[i]
      <4> SUFFICES ASSUME NEW i \in 0 .. n
                   PROVE  (IF i = 0 THEN << >> ELSE part[i - 1] \o b[i]) = f[i]
        OBVIOUS
      <4>1. CASE i = 0
        BY <1>4, <4>1
      <4>2. CASE i # 0
        <5>1. i - 1 \in 0 .. n /\ i \in 1 .. N
          BY <4>2
        <5>2. part[i - 1] = f[i - 1]
          BY <5>1
        <5> QED
          BY <1>4, <4>2, <5>1, <5>2
      <4> QED
        BY <4>1, <4>2
    <3> QED
      BY <3>1
  <2>3. data = Body(data)
    <3> HIDE DEF Body, part
    <3> QED
      BY <2>2
  <2>4. data[0] = << >> /\ \A i \in 1 .. n : data[i] = data[i - 1] \o b[i]
    <3> PICK g : g = data
      OBVIOUS
    <3>1. g = Body(g)
      BY <2>3
    <3> HIDE DEF data
    <3>2. \A i \in 0 .. n : g[i] = IF i = 0 THEN << >> ELSE g[i - 1] \o b[i]
      BY <3>1, Zenon
    <3> HIDE DEF Body
    <3>3. \A i \in 1 .. n : i \in 0 .. n /\ i # 0
      OBVIOUS
    <3>4. g[0] = << >>
      <4>1. 0 \in 0 .. n
        OBVIOUS
      <4> QED
        BY <3>2, <4>1, Zenon
    <3>5. \A i \in 1 .. n : g[i] = g[i - 1] \o b[i]
      BY <3>2, <3>3, Zenon
    <3> QED
      BY <3>4, <3>5
  <2> HIDE DEF data, Body, part
  <2>5. data[n] = f[n]
    <3> PICK g : g = data
      OBVIOUS
    <3> DEFINE T == { i \in 0 .. n : f[i] # g[i] }
    <3>0. n \in 0 .. n
      OBVIOUS
    <3>1. SUFFICES ASSUME T # {}
                   PROVE  FALSE
      <4>1. n \in T \/ f[n] = g[n]
        BY <3>0, Zenon
      <4> QED
        BY <4>1, Zenon
    <3>2. T \in SUBSET Nat
      OBVIOUS
    <3>3. PICK i \in T : \A j \in T : i <= j
      BY <3>1, <3>2, LeastNatural
    <3>4. i \in 0 .. n /\ f[i] # g[i]
      OBVIOUS
    <3>5. i # 0
      BY <1>4, <2>4, <3>4
    <3>6. i \in 1 .. n /\ i \in 1 .. N /\ i - 1 \in 0 .. n
      BY <3>4, <3>5
    <3>7. i - 1 \notin T
      BY <3>3, <3>6
    <3>8. f[i - 1] = g[i - 1]
      BY <3>6, <3>7
    <3>9. g[i] = g[i - 1] \o b[i] /\ f[i] = f[i - 1] \o b[i]
      BY <1>4, <2>4, <3>6
    <3> QED
      BY <3>4, <3>8, <3>9, Zenon
  <2> QED
    BY <2>1, <2>5
<1> QED
  BY <1>4, <1>5 DEF Joins

(* The buckets of the i-th histogram stay where they were put.             *)
Placed(f, b, n) ==
  \A i \in 1 .. n : \A j \in 1 .. Len(b[i]) :
    /\ Len(f[i - 1]) + j \in 1 .. Len(f[n])
    /\ f[n][Len(f[i - 1]) + j] = b[i][j]

LEMMA JoinedAt ==
  ASSUME NEW R, NEW s \in Seq(R), NEW t \in Seq(R)
  PROVE  /\ Len(s \o t) = Len(s) + Len(t) /\ Len(s) \in Nat /\ Len(t) \in Nat
         /\ \A j \in 1 .. Len(s) : (s \o t)[j] = s[j]
         /\ \A j \in 1 .. Len(t) : (s \o t)[Len(s) + j] = t[j]
OBVIOUS

LEMMA BucketsPlaced ==
  ASSUME NEW R, NEW N \in Nat, NEW b, \A i \in 1 .. N : b[i] \in Seq(R),
         NEW f \in [ 0 .. N -> Seq(R) ], \A i \in 1 .. N : f[i] = f[i - 1] \o b[i]
  PROVE  Placed(f, b, N)
<1> DEFINE T == { n \in 0 .. N : ~Placed(f, b, n) }
<1>1. SUFFICES ASSUME T # {}
               PROVE  FALSE
  OBVIOUS
<1>2. T \in SUBSET Nat
  OBVIOUS
<1>3. PICK n \in T : \A m \in T : n <= m
  BY <1>1, <1>2, LeastNatural
<1>4. n \in 0 .. N /\ ~Placed(f, b, n)
  OBVIOUS
<1>5. n # 0
  BY <1>4 DEF Placed
<1>6. n \in 1 .. N /\ n - 1 \in 0 .. N
  BY <1>4, <1>5
<1>7. n - 1 \notin T
  BY <1>3, <1>6
<1>8. PICK k \in 0 .. N : k = n - 1
  BY <1>6
<1>9. Placed(f, b, k)
  BY <1>7, <1>8
<1>10. f[k] \in Seq(R) /\ b[n] \in Seq(R) /\ f[n] = f[k] \o b[n]
  BY <1>6, <1>8
<1>11. /\ Len(f[n]) = Len(f[k]) + Len(b[n]) /\ Len(f[k]) \in Nat /\ Len(b[n]) \in Nat
       /\ \A j \in 1 .. Len(f[k]) : f[n][j] = f[k][j]
       /\ \A j \in 1 .. Len(b[n]) : f[n][Len(f[k]) + j] = b[n][j]
  BY <1>10, JoinedAt
<1> HIDE DEF T
<1>12. ASSUME NEW i \in 1 .. n, NEW j \in 1 .. Len(b[i])
       PROVE  /\ Len(f[i - 1]) + j \in 1 .. Len(f[n])
              /\ f[n][Len(f[i - 1]) + j] = b[i][j]
  <2>1. CASE i = n
    <3>1. f[i - 1] = f[k] /\ j \in 1 .. Len(b[n]) /\ b[i] = b[n]
      BY <1>8, <2>1
    <3>2. Len(f[k]) + j \in 1 .. Len(f[n])
      BY <1>11, <3>1
    <3> QED
      BY <1>11, <3>1, <3>2
  <2>2. CASE i # n
    <3>1. i \in 1 .. k
      BY <1>6, <1>8, <2>2
    <3>2. Len(f[i - 1]) + j \in 1 .. Len(f[k]) /\ f[k][Len(f[i - 1]) + j] = b[i][j]
      BY <1>9, <3>1 DEF Placed
    <3> DEFINE p == Len(f[i - 1]) + j
    <3>3. p \in 1 .. Len(f[k]) /\ f[k][p] = b[i][j]
      BY <3>2
    <3> HIDE DEF p
    <3>4. p \in 1 .. Len(f[n]) /\ f[n][p] = b[i][j]
      BY <1>11, <3>3
    <3> QED
      BY <3>4 DEF p
  <2> QED
    BY <2>1, <2>2
<1> QED
  BY <1>4, <1>12 DEF Placed

(* A finite set can be put in a list.                                      *)
LEMMA KeysListed ==
  ASSUME NEW S, IsFiniteSet(S)
  PROVE  \E n \in Nat : /\ SetToSeq(S) \in [ 1 .. n -> S ]
                        /\ \A x \in S : \E i \in 1 .. n : SetToSeq(S)[i] = x
<1> DEFINE n == Cardinality(S)
<1>1. n \in Nat /\ ExistsBijection(1 .. n, S)
  BY FS_CardinalityType
<1>2. \E f \in [ 1 .. n -> S ] : IsInjective(f)
  BY <1>1 DEF ExistsBijection, Bijection, Injection
<1>3. SetToSeq(S) \in [ 1 .. n -> S ] /\ IsInjective(SetToSeq(S))
  BY <1>2, Zenon DEF SetToSeq
<1>4. SetToSeq(S) \in Injection(1 .. n, S)
  BY <1>3 DEF Injection
<1>5. IsFiniteSet(1 .. n) /\ Cardinality(1 .. n) = n
  BY <1>1, FS_Interval
<1>6. SetToSeq(S) \in Surjection(1 .. n, S)
  BY <1>4, <1>5, FS_Injection
<1> QED
  BY <1>1, <1>3, <1>6 DEF Surjection

LEMMA UpToAppended ==
  ASSUME NEW values \in Seq(Int), NEW v \in Int, NEW bound \in Int
  PROVE  /\ UpTo(values, bound) \in Nat
         /\ UpTo(Append(values, v), bound) =
              IF v <= bound THEN UpTo(values, bound) + 1 ELSE UpTo(values, bound)
<1> DEFINE n == Len(values)
           more == Append(values, v)
           A == { i \in DOMAIN values : values[i] <= bound }
           B == { i \in DOMAIN more : more[i] <= bound }
<1>1. /\ n \in Nat /\ DOMAIN values = 1 .. n /\ DOMAIN more = 1 .. n + 1 /\ more[n + 1] = v
      /\ \A i \in 1 .. n : more[i] = values[i]
  OBVIOUS
<1>2. UpTo(values, bound) = Cardinality(A) /\ UpTo(Append(values, v), bound) = Cardinality(B)
  BY DEF UpTo
<1> HIDE DEF more, n
<1>3. IsFiniteSet(A) /\ n + 1 \notin A
  <2>1. IsFiniteSet(1 .. n)
    BY <1>1, FS_Interval
  <2>2. A \in SUBSET (1 .. n)
    BY <1>1
  <2>3. IsFiniteSet(A)
    BY <2>1, <2>2, FS_Subset
  <2> QED
    BY <1>1, <2>2, <2>3
<1>4. Cardinality(A) \in Nat
  BY <1>3, FS_CardinalityType
<1>5. CASE v <= bound
  <2>1. B = A \cup {n + 1}
    BY <1>1, <1>5
  <2>2. Cardinality(A \cup {n + 1}) = Cardinality(A) + 1
    BY <1>3, FS_AddElement
  <2> QED
    BY <1>2, <1>4, <1>5, <2>1, <2>2
<1>6. CASE ~(v <= bound)
  <2>1. B = A
    BY <1>1, <1>6
  <2> QED
    BY <1>2, <1>4, <1>6, <2>1
<1> QED
  BY <1>5, <1>6

LEMMA UpToOfNone ==
  ASSUME NEW bound
  PROVE  UpTo(<< >>, bound) = 0
<1>1. { i \in DOMAIN << >> : << >>[i] <= bound } = {}
  OBVIOUS
<1> QED
  BY <1>1, FS_EmptySet DEF UpTo

-----------------------------------------------------------------------------
(* Metrics.                                                                *)

BoundsOf(k) ==
  IF Infinity \in ToSet(Boundaries[k]) THEN Boundaries[k]
  ELSE Append(Boundaries[k], Infinity)

Buckets == [ UpperBound : Int, Samples : Nat ]

HistogramOK(k, h) ==
  /\ h = [ buckets |-> h.buckets, sum |-> h.sum ]
  /\ h.buckets \in [ 1 .. Len(BoundsOf(k)) -> Buckets ]
  /\ \A i \in 1 .. Len(BoundsOf(k)) : h.buckets[i].UpperBound = BoundsOf(k)[i]
  /\ h.sum \in Int

(* What is held of a histogram and what was sent of it make up the values. *)
Counted(k, held, sent, values) ==
  /\ HistogramOK(k, held) /\ HistogramOK(k, sent)
  /\ \A i \in 1 .. Len(BoundsOf(k)) :
       held.buckets[i].Samples + sent.buckets[i].Samples = UpTo(values, BoundsOf(k)[i])
  /\ held.sum + sent.sum = Total(values)

MapOf(K, map) == map = [ k \in K |-> map[k] ]

MetricsOK ==
  /\ metrics = [ Load |-> metrics.Load, GaugeMetrics |-> metrics.GaugeMetrics,
                 HistogramMetrics |-> metrics.HistogramMetrics ]
  /\ latest = [ Load |-> metrics.Load, GaugeMetrics |-> metrics.GaugeMetrics ]
  /\ MapOf(DOMAIN Boundaries, metrics.HistogramMetrics)
  /\ MapOf(DOMAIN Boundaries, received.HistogramMetrics)
  /\ recorded \in [ DOMAIN Boundaries -> Seq(Int) ]
  /\ \A k \in DOMAIN Boundaries :
       Counted(k, metrics.HistogramMetrics[k], received.HistogramMetrics[k], recorded[k])

LEMMA BoundsFacts ==
  ASSUME NEW k \in DOMAIN Boundaries
  PROVE  /\ BoundsOf(k) \in Seq(Int) /\ Len(BoundsOf(k)) \in Nat
         /\ DOMAIN BoundsOf(k) = 1 .. Len(BoundsOf(k))
         /\ \E i \in 1 .. Len(BoundsOf(k)) : BoundsOf(k)[i] = Infinity
<1>1. Boundaries[k] \in Seq(Int) /\ Infinity \in Int
  BY MetricsAssumption
<1>2. CASE Infinity \in ToSet(Boundaries[k])
  <2>1. BoundsOf(k) = Boundaries[k]
    BY <1>2 DEF BoundsOf
  <2>2. \E i \in 1 .. Len(Boundaries[k]) : Boundaries[k][i] = Infinity
    BY <1>1, <1>2 DEF ToSet
  <2>3. Len(Boundaries[k]) \in Nat /\ DOMAIN Boundaries[k] = 1 .. Len(Boundaries[k])
    BY <1>1
  <2> QED
    BY <1>1, <2>1, <2>2, <2>3, Zenon
<1>3. CASE Infinity \notin ToSet(Boundaries[k])
  <2> DEFINE s == Boundaries[k]
             t == Append(s, Infinity)
  <2>1. BoundsOf(k) = t
    BY <1>3 DEF BoundsOf
  <2>2. s \in Seq(Int)
    BY <1>1
  <2> HIDE DEF s
  <2>3. t \in Seq(Int) /\ Len(t) = Len(s) + 1 /\ Len(s) \in Nat /\ t[Len(s) + 1] = Infinity
    BY <1>1, <2>2
  <2>4. DOMAIN t = 1 .. Len(t)
    BY <2>3
  <2> HIDE DEF t
  <2>5. Len(s) + 1 \in 1 .. Len(t) /\ Len(t) \in Nat
    BY <2>3
  <2> QED
    BY <2>1, <2>3, <2>4, <2>5, Zenon
<1> QED
  BY <1>2, <1>3

LEMMA BucketFields ==
  ASSUME NEW x \in Buckets
  PROVE  x.UpperBound \in Int /\ x.Samples \in Nat
BY DEF Buckets

LEMMA BucketMade ==
  ASSUME NEW u \in Int, NEW n \in Nat
  PROVE  [ UpperBound |-> u, Samples |-> n ] \in Buckets
BY DEF Buckets

LEMMA BucketWith ==
  ASSUME NEW x \in Buckets, NEW n \in Nat
  PROVE  /\ [ x EXCEPT !.Samples = n ] \in Buckets
         /\ [ x EXCEPT !.Samples = n ].UpperBound = x.UpperBound
         /\ [ x EXCEPT !.Samples = n ].Samples = n
BY DEF Buckets

LEMMA NewHistogram ==
  ASSUME NEW k \in DOMAIN Boundaries
  PROVE  LET h == HistogramMetric(Boundaries[k]) IN Counted(k, h, h, << >>)
<1> DEFINE h == HistogramMetric(Boundaries[k])
           bounds == BoundsOf(k)
<1>1. h = [ buckets |-> [ i \in DOMAIN bounds |-> [ UpperBound |-> bounds[i], Samples |-> 0 ] ],
            sum |-> 0 ]
  BY DEF HistogramMetric, BoundsOf
<1>2. bounds \in Seq(Int) /\ DOMAIN bounds = 1 .. Len(bounds)
  BY BoundsFacts
<1> HIDE DEF bounds
<1>3. \A i \in 1 .. Len(bounds) : bounds[i] \in Int
  BY <1>2
<1>4. \A i \in 1 .. Len(bounds) : [ UpperBound |-> bounds[i], Samples |-> 0 ] \in Buckets
  BY <1>3, BucketMade
<1>5. /\ h = [ buckets |-> h.buckets, sum |-> h.sum ] /\ h.sum = 0
      /\ h.buckets = [ i \in 1 .. Len(bounds) |-> [ UpperBound |-> bounds[i], Samples |-> 0 ] ]
  BY <1>1, <1>2
<1> HIDE DEF h
<1>6. \A i \in 1 .. Len(bounds) : /\ h.buckets[i].UpperBound = bounds[i]
                                 /\ h.buckets[i].Samples = 0
  BY <1>5
<1>7. h.buckets \in [ 1 .. Len(bounds) -> Buckets ]
  BY <1>4, <1>5
<1>8. HistogramOK(k, h)
  BY <1>5, <1>6, <1>7 DEF HistogramOK, bounds
<1>9. Total(<< >>) = 0 /\ \A b : UpTo(<< >>, b) = 0
  BY TotalOfNone, UpToOfNone
<1>10. /\ \A i \in 1 .. Len(bounds) :
            h.buckets[i].Samples + h.buckets[i].Samples = UpTo(<< >>, bounds[i])
       /\ h.sum + h.sum = Total(<< >>)
  BY <1>5, <1>6, <1>9
<1> QED
  BY <1>8, <1>10 DEF Counted, h, bounds

LEMMA RecordCounts ==
  ASSUME NEW k \in DOMAIN Boundaries, NEW held, NEW sent, NEW values \in Seq(Int),
         Counted(k, held, sent, values), NEW v \in Int
  PROVE  Counted(k, RecordObservation(held, v), sent, Append(values, v))
<1> DEFINE h == RecordObservation(held, v)
           bounds == BoundsOf(k)
           n == Len(bounds)
<1>1. /\ HistogramOK(k, held) /\ HistogramOK(k, sent)
      /\ \A i \in 1 .. n : held.buckets[i].Samples + sent.buckets[i].Samples = UpTo(values, bounds[i])
      /\ held.sum + sent.sum = Total(values)
  BY DEF Counted
<1>2. /\ held.buckets \in [ 1 .. n -> Buckets ] /\ held.sum \in Int
      /\ \A i \in 1 .. n : held.buckets[i].UpperBound = bounds[i]
  BY <1>1 DEF HistogramOK
<1>3. sent.buckets \in [ 1 .. n -> Buckets ] /\ sent.sum \in Int
  BY <1>1 DEF HistogramOK
<1>4. \A i \in 1 .. n : bounds[i] \in Int
  BY BoundsFacts
<1> HIDE DEF bounds, n
<1>5. /\ h = [ buckets |-> h.buckets, sum |-> h.sum ] /\ h.sum = held.sum + v
      /\ h.buckets = [ i \in 1 .. n |-> IF v <= held.buckets[i].UpperBound
                                       THEN [ held.buckets[i] EXCEPT !.Samples = @ + 1 ]
                                       ELSE held.buckets[i] ]
  BY <1>2 DEF RecordObservation
<1> HIDE DEF h
<1>6. ASSUME NEW i \in 1 .. n
      PROVE  /\ h.buckets[i] \in Buckets /\ h.buckets[i].UpperBound = bounds[i]
             /\ h.buckets[i].Samples + sent.buckets[i].Samples = UpTo(Append(values, v), bounds[i])
  <2> PICK x : x = held.buckets[i]
    OBVIOUS
  <2> PICK y : y = sent.buckets[i]
    OBVIOUS
  <2> PICK z : z = h.buckets[i]
    OBVIOUS
  <2>1. /\ x \in Buckets /\ y \in Buckets /\ x.UpperBound = bounds[i]
        /\ x.Samples + y.Samples = UpTo(values, bounds[i])
    BY <1>1, <1>2, <1>3
  <2>2. z = IF v <= bounds[i] THEN [ x EXCEPT !.Samples = x.Samples + 1 ] ELSE x
    BY <1>5, <2>1
  <2>3. x.Samples \in Nat /\ y.Samples \in Nat /\ x.Samples + 1 \in Nat
    BY <2>1, BucketFields
  <2>4. UpTo(Append(values, v), bounds[i]) =
          IF v <= bounds[i] THEN UpTo(values, bounds[i]) + 1 ELSE UpTo(values, bounds[i])
    BY <1>4, UpToAppended
  <2>5. CASE v <= bounds[i]
    <3>1. z = [ x EXCEPT !.Samples = x.Samples + 1 ]
      BY <2>2, <2>5
    <3>2. z \in Buckets /\ z.UpperBound = bounds[i] /\ z.Samples = x.Samples + 1
      BY <2>1, <2>3, <3>1, BucketWith
    <3>3. z.Samples + y.Samples = UpTo(Append(values, v), bounds[i])
      <4>1. \A a, b \in Nat : (a + 1) + b = (a + b) + 1
        OBVIOUS
      <4>2. (x.Samples + 1) + y.Samples = (x.Samples + y.Samples) + 1
        BY <2>3, <4>1, Zenon
      <4>3. UpTo(Append(values, v), bounds[i]) = UpTo(values, bounds[i]) + 1
        BY <2>4, <2>5, Zenon
      <4> QED
        BY <2>1, <3>2, <4>2, <4>3, Zenon
    <3> QED
      BY <3>2, <3>3
  <2>6. CASE ~(v <= bounds[i])
    BY <2>1, <2>2, <2>4, <2>6
  <2> QED
    BY <2>5, <2>6
<1>7. h.buckets \in [ 1 .. n -> Buckets ]
  <2>1. h.buckets = [ i \in 1 .. n |-> h.buckets[i] ]
    BY <1>5
  <2> QED
    BY <1>6, <2>1
<1>8. h.sum \in Int /\ h.sum + sent.sum = Total(Append(values, v))
  <2>1. Total(values) \in Int /\ Total(Append(values, v)) = Total(values) + v
    BY TotalAppended
  <2> QED
    BY <1>1, <1>2, <1>3, <1>5, <2>1
<1>9. HistogramOK(k, h)
  BY <1>5, <1>6, <1>7, <1>8 DEF HistogramOK, bounds, n
<1> QED
  BY <1>1, <1>6, <1>8, <1>9 DEF Counted, h, bounds, n

(* What was sent of a histogram with n buckets, and what is held of it.    *)
Both(n, held, sent) ==
  [ buckets |-> [ i \in 1 .. n |->
      [ UpperBound |-> held.buckets[i].UpperBound,
        Samples |-> sent.buckets[i].Samples + held.buckets[i].Samples ] ],
    sum |-> sent.sum + held.sum ]

LEMMA SendCounts ==
  ASSUME NEW k \in DOMAIN Boundaries, NEW held, NEW sent, NEW values, NEW added,
         Counted(k, held, sent, values),
         added = Both(Len(BoundsOf(k)), held, sent)
  PROVE  Counted(k, ClearObservations(held), added, values)
<1> DEFINE h == ClearObservations(held)
           bounds == BoundsOf(k)
           n == Len(bounds)
<1>1. /\ HistogramOK(k, held) /\ HistogramOK(k, sent)
      /\ \A i \in 1 .. n : held.buckets[i].Samples + sent.buckets[i].Samples = UpTo(values, bounds[i])
      /\ held.sum + sent.sum = Total(values)
  BY DEF Counted
<1>2. /\ held.buckets \in [ 1 .. n -> Buckets ] /\ held.sum \in Int
      /\ \A i \in 1 .. n : held.buckets[i].UpperBound = bounds[i]
  BY <1>1 DEF HistogramOK
<1>3. sent.buckets \in [ 1 .. n -> Buckets ] /\ sent.sum \in Int
  BY <1>1 DEF HistogramOK
<1> HIDE DEF bounds
<1>4. /\ added = [ buckets |-> added.buckets, sum |-> added.sum ]
      /\ added.sum = sent.sum + held.sum
      /\ added.buckets = [ i \in 1 .. n |->
                             [ UpperBound |-> held.buckets[i].UpperBound,
                               Samples |-> sent.buckets[i].Samples + held.buckets[i].Samples ] ]
  BY DEF Both, bounds
<1> HIDE DEF n
<1>5. /\ h = [ buckets |-> h.buckets, sum |-> h.sum ] /\ h.sum = 0
      /\ h.buckets = [ i \in 1 .. n |-> [ held.buckets[i] EXCEPT !.Samples = 0 ] ]
  BY <1>2 DEF ClearObservations
<1> HIDE DEF h
<1>6. ASSUME NEW i \in 1 .. n
      PROVE  /\ h.buckets[i] \in Buckets /\ h.buckets[i].UpperBound = bounds[i]
             /\ added.buckets[i] \in Buckets /\ added.buckets[i].UpperBound = bounds[i]
             /\ h.buckets[i].Samples + added.buckets[i].Samples = UpTo(values, bounds[i])
  <2> PICK x : x = held.buckets[i]
    OBVIOUS
  <2> PICK y : y = sent.buckets[i]
    OBVIOUS
  <2> PICK z : z = h.buckets[i]
    OBVIOUS
  <2> PICK w : w = added.buckets[i]
    OBVIOUS
  <2>1. /\ x \in Buckets /\ y \in Buckets /\ x.UpperBound = bounds[i]
        /\ x.Samples + y.Samples = UpTo(values, bounds[i])
    BY <1>1, <1>2, <1>3
  <2>2. /\ z = [ x EXCEPT !.Samples = 0 ]
        /\ w = [ UpperBound |-> x.UpperBound, Samples |-> y.Samples + x.Samples ]
    BY <1>4, <1>5
  <2>3. x.UpperBound \in Int /\ x.Samples \in Nat /\ y.Samples \in Nat
    BY <2>1, BucketFields
  <2>4. y.Samples + x.Samples \in Nat /\ 0 \in Nat
    BY <2>3
  <2>5. z \in Buckets /\ z.UpperBound = bounds[i] /\ z.Samples = 0
    BY <2>1, <2>2 DEF Buckets
  <2>6. w \in Buckets /\ w.UpperBound = bounds[i] /\ w.Samples = y.Samples + x.Samples
    BY <2>1, <2>2, <2>3, <2>4, BucketMade
  <2>7. \A a, b \in Nat : 0 + (a + b) = b + a
    OBVIOUS
  <2>8. 0 + (y.Samples + x.Samples) = x.Samples + y.Samples
    BY <2>3, <2>7, Zenon
  <2>9. z.Samples + w.Samples = UpTo(values, bounds[i])
    BY <2>1, <2>5, <2>6, <2>8, Zenon
  <2> QED
    BY <2>5, <2>6, <2>9
<1>7. h.buckets \in [ 1 .. n -> Buckets ] /\ added.buckets \in [ 1 .. n -> Buckets ]
  <2>1. /\ h.buckets = [ i \in 1 .. n |-> h.buckets[i] ]
        /\ added.buckets = [ i \in 1 .. n |-> added.buckets[i] ]
    BY <1>4, <1>5
  <2> QED
    BY <1>6, <2>1
<1>8. h.sum \in Int /\ added.sum \in Int /\ h.sum + added.sum = Total(values)
  BY <1>1, <1>2, <1>3, <1>4, <1>5
<1>9. HistogramOK(k, h) /\ HistogramOK(k, added)
  BY <1>4, <1>5, <1>6, <1>7, <1>8 DEF HistogramOK, bounds, n
<1> QED
  BY <1>6, <1>8, <1>9 DEF Counted, h, bounds, n

(* However many histograms share the array, whoever receives it finds the  *)
(* buckets of each.                                                        *)
LEMMA AddAdds ==
  ASSUME NEW m, NEW had, NEW K, IsFiniteSet(K), NEW k \in K, NEW n \in Nat,
         MapOf(K, m.HistogramMetrics), MapOf(K, had.HistogramMetrics),
         \A l \in K : m.HistogramMetrics[l].buckets \in Seq(Buckets),
         Len(m.HistogramMetrics[k].buckets) = n
  PROVE  Add(had, ProtocolMetrics(m)).HistogramMetrics[k] =
           Both(n, m.HistogramMetrics[k], had.HistogramMetrics[k])
<1> DEFINE keys == SetToSeq(DOMAIN m.HistogramMetrics)
           histograms == [ i \in DOMAIN keys |-> m.HistogramMetrics[keys[i]] ]
           buckets == [ i \in DOMAIN keys |-> histograms[i].buckets ]
           p == ProtocolMetrics(m)
           entry(i) == [ Key |-> keys[i], Sum |-> histograms[i].sum,
                         BucketCount |-> Len(buckets[i]), Bucket |-> Bucket(buckets, i) ]
           held == m.HistogramMetrics[k]
           sent == had.HistogramMetrics[k]
<1>1. DOMAIN m.HistogramMetrics = K /\ DOMAIN had.HistogramMetrics = K
  BY DEF MapOf
<1>2. PICK N \in Nat : /\ keys \in [ 1 .. N -> K ]
                       /\ \A x \in K : \E i \in 1 .. N : keys[i] = x
  BY <1>1, KeysListed
<1>3. /\ p.HistogramMetric = [ i \in DOMAIN keys |-> entry(i) ]
      /\ p.HistogramMetricBucket = BucketData(buckets, Len(keys))
  BY DEF ProtocolMetrics
<1>4. DOMAIN keys = 1 .. N /\ Len(keys) = N
  <2>1. \A l \in Nat : \A f \in [ 1 .. l -> K ] : f \in Seq(K) /\ Len(f) = l
    OBVIOUS
  <2> QED
    BY <1>2, <2>1
<1> HIDE DEF p
<1>5. /\ p.HistogramMetric = [ i \in 1 .. N |-> entry(i) ]
      /\ p.HistogramMetricBucket = BucketData(buckets, N)
  BY <1>3, <1>4
<1>6. \A i \in 1 .. N : /\ histograms[i] = m.HistogramMetrics[keys[i]]
                         /\ buckets[i] = m.HistogramMetrics[keys[i]].buckets
                         /\ keys[i] \in K
  BY <1>2, <1>4
<1> HIDE DEF keys, histograms, buckets
<1>7. \A i \in 1 .. N : buckets[i] \in Seq(Buckets)
  BY <1>6
<1>8. PICK f \in [ 0 .. N -> Seq(Buckets) ] : Joins(f, buckets, N)
  BY <1>7, BucketDataRuns
<1>9. Placed(f, buckets, N)
  BY <1>7, <1>8, BucketsPlaced DEF Joins
<1> DEFINE h == CHOOSE x \in ToSet(p.HistogramMetric) : x.Key = k
<1>10. PICK i \in 1 .. N : h = entry(i) /\ keys[i] = k
  <2>1. DOMAIN p.HistogramMetric = 1 .. N /\ \A i \in 1 .. N : p.HistogramMetric[i] = entry(i)
    BY <1>5
  <2>2. PICK i0 \in 1 .. N : keys[i0] = k
    BY <1>2
  <2>3. entry(i0) \in ToSet(p.HistogramMetric) /\ entry(i0).Key = k
    BY <2>1, <2>2, Zenon DEF ToSet
  <2>4. h \in ToSet(p.HistogramMetric) /\ h.Key = k
    BY <2>3, Zenon
  <2>5. PICK i \in 1 .. N : h = p.HistogramMetric[i]
    BY <2>1, <2>4 DEF ToSet
  <2>6. h = entry(i)
    BY <2>1, <2>5
  <2>7. entry(i).Key = keys[i]
    OBVIOUS
  <2> QED
    BY <2>4, <2>6, <2>7
<1>11. /\ h.Sum = histograms[i].sum /\ h.BucketCount = Len(buckets[i])
       /\ h.Bucket = Bucket(buckets, i)
  <2>1. /\ entry(i).Sum = histograms[i].sum /\ entry(i).BucketCount = Len(buckets[i])
        /\ entry(i).Bucket = Bucket(buckets, i)
    OBVIOUS
  <2> HIDE DEF h
  <2>2. h = entry(i)
    BY <1>10
  <2> HIDE DEF entry
  <2> QED
    BY <2>1, <2>2, Zenon
<1>12. buckets[i] = held.buckets /\ histograms[i] = held
  BY <1>6, <1>10
<1>13. i - 1 \in 0 .. N /\ N \in 0 .. N
  OBVIOUS
<1>14. h.Bucket = Len(f[i - 1]) /\ h.BucketCount = n /\ h.Sum = held.sum
  BY <1>8, <1>11, <1>12, <1>13 DEF Bucket, Joins
<1> HIDE DEF h, held, sent
<1> DEFINE d == f[N]
           start == Len(f[i - 1])
           bucket == SubSeq(p.HistogramMetricBucket, h.Bucket + 1, h.Bucket + h.BucketCount)
<1>15. start \in Nat /\ d \in Seq(Buckets)
  BY <1>8, <1>13
<1>16. \A j \in 1 .. n : start + j \in 1 .. Len(d) /\ d[start + j] = held.buckets[j]
  BY <1>9, <1>11, <1>12, <1>14 DEF Placed
<1>17. bucket = SubSeq(d, start + 1, start + n)
  BY <1>5, <1>8, <1>13, <1>14 DEF Joins
<1> HIDE DEF d, start, bucket
<1>18. \A j \in 1 .. n : bucket[j] = held.buckets[j]
  <2>1. \A j \in start + 1 .. start + n : d[j] \in Buckets
    <3> SUFFICES ASSUME NEW j \in start + 1 .. start + n
                 PROVE  d[j] \in Buckets
      OBVIOUS
    <3>1. j - start \in 1 .. n /\ start + (j - start) = j
      BY <1>15
    <3>2. j \in 1 .. Len(d)
      BY <1>16, <3>1
    <3> QED
      BY <1>15, <3>2
  <2> DEFINE a == start + 1
             e == start + n
  <2>2. a \in Int /\ e \in Int /\ e - a + 1 = n /\ \A j \in 1 .. n : a + j - 1 = start + j
    BY <1>15
  <2>3. \A j \in a .. e : d[j] \in Buckets
    BY <2>1
  <2> HIDE DEF a, e
  <2>4. \A j \in 1 .. e - a + 1 : SubSeq(d, a, e)[j] = d[a + j - 1]
    BY <2>2, <2>3, SubSeqProperties
  <2>5. \A j \in 1 .. n : SubSeq(d, a, e)[j] = d[start + j]
    BY <2>2, <2>4, Zenon
  <2> QED
    BY <1>16, <1>17, <2>5 DEF a, e
<1>19. Add(had, p).HistogramMetrics[k] =
         [ buckets |-> [ j \in 1 .. h.BucketCount |->
             [ UpperBound |-> bucket[j].UpperBound,
               Samples |-> sent.buckets[j].Samples + bucket[j].Samples ] ],
           sum |-> sent.sum + h.Sum ]
  BY <1>1 DEF Add, h, bucket, sent
<1> QED
  BY <1>14, <1>18, <1>19 DEF Both, p, held, sent

LEMMA MetricsInitOK ==
  MetricsInit => MetricsOK
<1> SUFFICES ASSUME MetricsInit
             PROVE  MetricsOK
  OBVIOUS
<1> DEFINE H == [ k \in DOMAIN Boundaries |-> HistogramMetric(Boundaries[k]) ]
           new == [ Load |-> << >>, GaugeMetrics |-> << >>, HistogramMetrics |-> H ]
<1>1. /\ metrics = new /\ received = new
      /\ latest = [ Load |-> << >>, GaugeMetrics |-> << >> ]
      /\ recorded = [ k \in DOMAIN Boundaries |-> << >> ]
  BY DEF MetricsInit
<1>2. MapOf(DOMAIN Boundaries, H)
  BY DEF MapOf
<1>3. ASSUME NEW k \in DOMAIN Boundaries
      PROVE  Counted(k, H[k], H[k], recorded[k])
  <2>1. H[k] = HistogramMetric(Boundaries[k]) /\ recorded[k] = << >>
    BY <1>1
  <2> HIDE DEF H
  <2> QED
    BY <2>1, NewHistogram
<1>4. recorded \in [ DOMAIN Boundaries -> Seq(Int) ]
  BY <1>1
<1> HIDE DEF H
<1>5. metrics.HistogramMetrics = H /\ received.HistogramMetrics = H
  BY <1>1
<1> QED
  BY <1>1, <1>2, <1>3, <1>4, <1>5 DEF MetricsOK

LEMMA AssignedNone ==
  ASSUME NEW K, NEW map, MapOf(K, map)
  PROVE  Assigned(map, << >>) = map
<1>1. DOMAIN << >> = {}
  OBVIOUS
<1>2. DOMAIN map = K
  BY DEF MapOf
<1>3. Assigned(map, << >>) = [ k \in K |-> map[k] ]
  BY <1>1, <1>2 DEF Assigned
<1> QED
  BY <1>3 DEF MapOf

(* What leaves histograms alone, and sets the rest as the user did.        *)
LEMMA LatestStep ==
  ASSUME MetricsOK, NEW load, NEW gauges,
         metrics' = [ Load |-> load, GaugeMetrics |-> gauges,
                      HistogramMetrics |-> metrics.HistogramMetrics ],
         latest' = [ Load |-> load, GaugeMetrics |-> gauges ],
         UNCHANGED << recorded, received, sends >>
  PROVE  MetricsOK'
<1>1. metrics'.HistogramMetrics = metrics.HistogramMetrics
  OBVIOUS
<1>2. /\ metrics' = [ Load |-> metrics'.Load, GaugeMetrics |-> metrics'.GaugeMetrics,
                      HistogramMetrics |-> metrics'.HistogramMetrics ]
      /\ latest' = [ Load |-> metrics'.Load, GaugeMetrics |-> metrics'.GaugeMetrics ]
  OBVIOUS
<1>3. recorded' = recorded /\ received' = received
  OBVIOUS
<1> QED
  BY <1>1, <1>2, <1>3 DEF MetricsOK

LEMMA SetGaugeStep ==
  ASSUME MetricsOK, NEW g, NEW v, SetGauge(g, v)
  PROVE  MetricsOK'
<1> DEFINE gauges == Assigned(metrics.GaugeMetrics, [ x \in {g} |-> v ])
<1>1. /\ metrics' = [ Load |-> metrics.Load, GaugeMetrics |-> gauges,
                      HistogramMetrics |-> metrics.HistogramMetrics ]
      /\ latest' = [ Load |-> metrics.Load, GaugeMetrics |-> gauges ]
  <2>1. /\ metrics = [ Load |-> metrics.Load, GaugeMetrics |-> metrics.GaugeMetrics,
                       HistogramMetrics |-> metrics.HistogramMetrics ]
        /\ latest = [ Load |-> metrics.Load, GaugeMetrics |-> metrics.GaugeMetrics ]
    BY DEF MetricsOK
  <2>2. latest.GaugeMetrics = metrics.GaugeMetrics
    BY <2>1
  <2>3. /\ metrics' = [ metrics EXCEPT !.GaugeMetrics = gauges ]
        /\ latest' = [ latest EXCEPT !.GaugeMetrics = gauges ]
    BY <2>2 DEF SetGauge
  <2> HIDE DEF gauges
  <2> QED
    BY <2>1, <2>3
<1> HIDE DEF gauges
<1> QED
  BY <1>1, LatestStep DEF SetGauge

LEMMA SetLoadStep ==
  ASSUME MetricsOK, NEW v, SetLoad(v)
  PROVE  MetricsOK'
<1>1. /\ metrics' = [ Load |-> << v >>, GaugeMetrics |-> metrics.GaugeMetrics,
                      HistogramMetrics |-> metrics.HistogramMetrics ]
      /\ latest' = [ Load |-> << v >>, GaugeMetrics |-> metrics.GaugeMetrics ]
  <2>1. /\ metrics = [ Load |-> metrics.Load, GaugeMetrics |-> metrics.GaugeMetrics,
                       HistogramMetrics |-> metrics.HistogramMetrics ]
        /\ latest = [ Load |-> metrics.Load, GaugeMetrics |-> metrics.GaugeMetrics ]
    BY DEF MetricsOK
  <2> QED
    BY <2>1 DEF SetLoad
<1> QED
  BY <1>1, LatestStep DEF SetLoad

LEMMA HandleMetricsStep ==
  ASSUME MetricsOK, NEW given, HandleMetrics(given)
  PROVE  MetricsOK'
<1> DEFINE gauges == Assigned(metrics.GaugeMetrics, given)
           wrapper == [ Load |-> << >>, GaugeMetrics |-> given, HistogramMetrics |-> << >> ]
<1>1. /\ metrics = [ Load |-> metrics.Load, GaugeMetrics |-> metrics.GaugeMetrics,
                     HistogramMetrics |-> metrics.HistogramMetrics ]
      /\ latest = [ Load |-> metrics.Load, GaugeMetrics |-> metrics.GaugeMetrics ]
      /\ MapOf(DOMAIN Boundaries, metrics.HistogramMetrics)
  BY DEF MetricsOK
<1>2. metrics' = Merge(metrics, wrapper)
  BY DEF HandleMetrics
<1>3. /\ wrapper.Load = << >> /\ wrapper.GaugeMetrics = given
      /\ wrapper.HistogramMetrics = << >>
  OBVIOUS
<1> HIDE DEF wrapper
<1>4. Assigned(metrics.HistogramMetrics, << >>) = metrics.HistogramMetrics
  BY <1>1, AssignedNone
<1>5. metrics' = [ Load |-> metrics.Load, GaugeMetrics |-> gauges,
                   HistogramMetrics |-> metrics.HistogramMetrics ]
  BY <1>2, <1>3, <1>4 DEF Merge
<1>6. latest' = [ Load |-> metrics.Load, GaugeMetrics |-> gauges ]
  <2>1. latest.GaugeMetrics = metrics.GaugeMetrics
    BY <1>1
  <2>2. latest' = [ latest EXCEPT !.GaugeMetrics = gauges ]
    BY <2>1 DEF HandleMetrics
  <2> HIDE DEF gauges
  <2> QED
    BY <1>1, <2>2
<1> HIDE DEF gauges
<1> QED
  BY <1>5, <1>6, LatestStep DEF HandleMetrics

LEMMA RecordStep ==
  ASSUME MetricsOK, NEW key \in DOMAIN Boundaries, NEW v \in Values, Record(key, v)
  PROVE  MetricsOK'
<1> DEFINE H == metrics.HistogramMetrics
           G == [ H EXCEPT ![key] = RecordObservation(H[key], v) ]
<1>1. /\ metrics = [ Load |-> metrics.Load, GaugeMetrics |-> metrics.GaugeMetrics,
                     HistogramMetrics |-> H ]
      /\ latest = [ Load |-> metrics.Load, GaugeMetrics |-> metrics.GaugeMetrics ]
      /\ MapOf(DOMAIN Boundaries, H)
      /\ recorded \in [ DOMAIN Boundaries -> Seq(Int) ]
      /\ \A k \in DOMAIN Boundaries :
           Counted(k, H[k], received.HistogramMetrics[k], recorded[k])
  BY DEF MetricsOK
<1>2. metrics' = [ metrics EXCEPT !.HistogramMetrics = G ]
  BY DEF Record
<1>3. /\ recorded' = [ recorded EXCEPT ![key] = Append(recorded[key], v) ]
      /\ latest' = latest /\ received' = received
  BY DEF Record
<1>4. v \in Int
  BY MetricsAssumption
<1>5. Counted(key, RecordObservation(H[key], v), received.HistogramMetrics[key],
              Append(recorded[key], v))
  BY <1>1, <1>4, RecordCounts
<1>6. MapOf(DOMAIN Boundaries, G) /\ G[key] = RecordObservation(H[key], v)
      /\ \A k \in DOMAIN Boundaries : k # key => G[k] = H[k]
  BY <1>1 DEF MapOf
<1> HIDE DEF G
<1>7. metrics' = [ Load |-> metrics.Load, GaugeMetrics |-> metrics.GaugeMetrics,
                   HistogramMetrics |-> G ]
  BY <1>1, <1>2
<1> HIDE DEF H
<1>8. /\ recorded' \in [ DOMAIN Boundaries -> Seq(Int) ]
      /\ recorded'[key] = Append(recorded[key], v)
      /\ \A k \in DOMAIN Boundaries : k # key => recorded'[k] = recorded[k]
  BY <1>1, <1>3, <1>4
<1>9. \A k \in DOMAIN Boundaries : Counted(k, G[k], received'.HistogramMetrics[k], recorded'[k])
  <2> SUFFICES ASSUME NEW k \in DOMAIN Boundaries
               PROVE  Counted(k, G[k], received'.HistogramMetrics[k], recorded'[k])
    OBVIOUS
  <2>1. CASE k = key
    BY <1>3, <1>5, <1>6, <1>8, <2>1
  <2>2. CASE k # key
    BY <1>1, <1>3, <1>6, <1>8, <2>2
  <2> QED
    BY <2>1, <2>2
<1>10. /\ metrics'.Load = metrics.Load /\ metrics'.GaugeMetrics = metrics.GaugeMetrics
       /\ metrics'.HistogramMetrics = G
  BY <1>7
<1>11. MapOf(DOMAIN Boundaries, received'.HistogramMetrics)
  BY <1>3 DEF MetricsOK
<1> QED
  BY <1>1, <1>3, <1>6, <1>7, <1>8, <1>9, <1>10, <1>11 DEF MetricsOK

LEMMA SendMetricsStep ==
  ASSUME MetricsOK, SendMetrics
  PROVE  MetricsOK'
<1> DEFINE K == DOMAIN Boundaries
           H == metrics.HistogramMetrics
           G == [ k \in DOMAIN H |-> ClearObservations(H[k]) ]
           R == received.HistogramMetrics
           Q == Add(received, ProtocolMetrics(metrics)).HistogramMetrics
<1>1. /\ metrics = [ Load |-> metrics.Load, GaugeMetrics |-> metrics.GaugeMetrics,
                     HistogramMetrics |-> H ]
      /\ latest = [ Load |-> metrics.Load, GaugeMetrics |-> metrics.GaugeMetrics ]
      /\ MapOf(K, H) /\ MapOf(K, R)
      /\ recorded \in [ K -> Seq(Int) ]
      /\ \A k \in K : Counted(k, H[k], R[k], recorded[k])
  BY DEF MetricsOK
<1>2. metrics' = [ metrics EXCEPT !.HistogramMetrics = G ]
  BY DEF SendMetrics
<1>3. received' = Add(received, ProtocolMetrics(metrics)) /\ latest' = latest
      /\ recorded' = recorded
  BY DEF SendMetrics
<1>4. IsFiniteSet(K)
  BY MetricsAssumption
<1>5. \A k \in K : /\ H[k].buckets \in Seq(Buckets)
                   /\ Len(H[k].buckets) = Len(BoundsOf(k))
                   /\ Len(BoundsOf(k)) \in Nat
  <2> SUFFICES ASSUME NEW k \in K
               PROVE  /\ H[k].buckets \in Seq(Buckets)
                      /\ Len(H[k].buckets) = Len(BoundsOf(k))
                      /\ Len(BoundsOf(k)) \in Nat
    OBVIOUS
  <2>1. Len(BoundsOf(k)) \in Nat
    BY BoundsFacts
  <2>2. H[k].buckets \in [ 1 .. Len(BoundsOf(k)) -> Buckets ]
    BY <1>1 DEF Counted, HistogramOK
  <2>3. \A n \in Nat : \A f \in [ 1 .. n -> Buckets ] : f \in Seq(Buckets) /\ Len(f) = n
    OBVIOUS
  <2> QED
    BY <2>1, <2>2, <2>3, Zenon
<1>6. \A k \in K : G[k] = ClearObservations(H[k])
  BY <1>1 DEF MapOf
<1>7. MapOf(K, G) /\ MapOf(K, Q)
  <2>1. DOMAIN H = K /\ DOMAIN R = K
    BY <1>1 DEF MapOf
  <2> QED
    BY <2>1 DEF MapOf, Add
<1> HIDE DEF G, Q
<1>8. metrics' = [ Load |-> metrics.Load, GaugeMetrics |-> metrics.GaugeMetrics,
                   HistogramMetrics |-> G ]
  BY <1>1, <1>2
<1>9. ASSUME NEW k \in K
      PROVE  Counted(k, G[k], Q[k], recorded[k])
  <2> PICK n \in Nat : n = Len(BoundsOf(k))
    BY <1>5
  <2>1. Q[k] = Both(n, H[k], R[k])
    <3>1. Len(H[k].buckets) = n /\ \A l \in K : H[l].buckets \in Seq(Buckets)
      BY <1>5
    <3> PICK m : m = metrics
      OBVIOUS
    <3> PICK had : had = received
      OBVIOUS
    <3>2. MapOf(K, m.HistogramMetrics) /\ MapOf(K, had.HistogramMetrics)
      BY <1>1
    <3>3. /\ \A l \in K : m.HistogramMetrics[l].buckets \in Seq(Buckets)
          /\ Len(m.HistogramMetrics[k].buckets) = n
      BY <3>1
    <3> HIDE DEF K
    <3>4. Add(had, ProtocolMetrics(m)).HistogramMetrics[k] =
            Both(n, m.HistogramMetrics[k], had.HistogramMetrics[k])
      BY <1>4, <3>2, <3>3, AddAdds
    <3> QED
      BY <3>4 DEF Q
  <2> QED
    BY <1>1, <1>6, <2>1, SendCounts
<1> HIDE DEF H
<1>10. /\ metrics'.Load = metrics.Load /\ metrics'.GaugeMetrics = metrics.GaugeMetrics
       /\ metrics'.HistogramMetrics = G /\ received'.HistogramMetrics = Q
  BY <1>3, <1>8 DEF Q
<1>11. \A k \in K : Counted(k, G[k], received'.HistogramMetrics[k], recorded'[k])
  BY <1>3, <1>9, <1>10
<1> QED
  BY <1>1, <1>3, <1>7, <1>8, <1>10, <1>11 DEF MetricsOK

LEMMA MetricsStepOK ==
  ASSUME MetricsOK, MetricsStep
  PROVE  MetricsOK'
BY SetGaugeStep, SetLoadStep, RecordStep, HandleMetricsStep, SendMetricsStep DEF MetricsStep

LEMMA MetricsFollow ==
  MetricsOK => ObservationsCountOnce
<1> SUFFICES ASSUME MetricsOK
             PROVE  ObservationsCountOnce
  OBVIOUS
<1>1. ASSUME NEW k \in DOMAIN Boundaries
      PROVE  LET held == metrics.HistogramMetrics[k]
                 sent == received.HistogramMetrics[k]
             IN  /\ \A i \in DOMAIN held.buckets :
                      /\ held.buckets[i].UpperBound = sent.buckets[i].UpperBound
                      /\ held.buckets[i].Samples + sent.buckets[i].Samples =
                           UpTo(recorded[k], held.buckets[i].UpperBound)
                 /\ \E i \in DOMAIN held.buckets : held.buckets[i].UpperBound = Infinity
                 /\ held.sum + sent.sum = Total(recorded[k])
  <2> DEFINE held == metrics.HistogramMetrics[k]
             sent == received.HistogramMetrics[k]
             n == Len(BoundsOf(k))
  <2>1. Counted(k, held, sent, recorded[k])
    BY DEF MetricsOK
  <2> HIDE DEF held, sent
  <2>2. /\ DOMAIN held.buckets = 1 .. n
        /\ \A i \in 1 .. n : /\ held.buckets[i].UpperBound = BoundsOf(k)[i]
                             /\ sent.buckets[i].UpperBound = BoundsOf(k)[i]
    BY <2>1 DEF Counted, HistogramOK
  <2>3. \E i \in 1 .. n : BoundsOf(k)[i] = Infinity
    BY BoundsFacts
  <2> QED
    BY <2>1, <2>2, <2>3 DEF Counted, held, sent
<1> QED
  BY <1>1 DEF MetricsOK, ObservationsCountOnce

(* Whatever gauges SpatialOS reports and however often metrics are sent,   *)
(* what was received of each histogram and what is still held of it make   *)
(* up what was ever recorded in it (Metrics::Merge of gauges,              *)
(* HistogramMetric::RecordObservation, Connection::SendMetrics).           *)
THEOREM ObservationsCount ==
  SessionSpec => []ObservationsCountOnce
<1>1. SessionInit => MetricsOK
  BY MetricsInitOK DEF SessionInit
<1>2. MetricsOK /\ [SessionNext]_sessionVars => MetricsOK'
  <2> SUFFICES ASSUME MetricsOK, [SessionNext]_sessionVars
               PROVE  MetricsOK'
    OBVIOUS
  <2>1. CASE MetricsStep
    BY <2>1, MetricsStepOK
  <2>2. CASE UNCHANGED metricsVars
    BY <2>2 DEF metricsVars, MetricsOK
  <2> QED
    BY <2>1, <2>2 DEF SessionNext, Connecting, Using, sessionVars
<1> QED
  BY <1>1, <1>2, MetricsFollow, PTL DEF SessionSpec

-----------------------------------------------------------------------------
(* Constraints.                                                            *)

(* A constraint that is built from those of a set.                         *)
Built(c, S) ==
  \/ IsSimple(c)
  \/ /\ ~ IsSimple(c) /\ c.type \in { "And", "Or", "Not" }
     /\ c.Constraints \in Seq(S)
     /\ c.type = "Not" => Len(c.Constraints) = 1

LEMMA LevelsBuilt ==
  /\ Len(ConstraintLevels) \in Nat /\ Below(1) = {}
  /\ \A n \in 1 .. Len(ConstraintLevels) : \A c \in Below(n + 1) : Built(c, Below(n))
  /\ \A n \in 1 .. Len(ConstraintLevels) + 1 : Below(n) \subseteq Constraints
<1> DEFINE L == Len(ConstraintLevels)
<1>1. L \in Nat /\ DOMAIN ConstraintLevels = 1 .. L
  BY ConstraintsAssumption
<1> HIDE DEF L
<1>2. Below(1) = {}
  <2>1. 1 .. 1 - 1 = {}
    OBVIOUS
  <2> QED
    BY <2>1 DEF Below
<1>3. \A n \in 1 .. L + 1 : \A m \in 1 .. n : Below(m) \subseteq Below(n)
  <2> SUFFICES ASSUME NEW n \in 1 .. L + 1, NEW m \in 1 .. n
               PROVE  Below(m) \subseteq Below(n)
    OBVIOUS
  <2>1. 1 .. m - 1 \subseteq 1 .. n - 1
    BY <1>1
  <2> QED
    BY <2>1 DEF Below
<1>4. ASSUME NEW n \in 1 .. L, NEW c \in Below(n + 1)
      PROVE  Built(c, Below(n))
  <2>1. PICK m \in 1 .. (n + 1) - 1 : c \in ConstraintLevels[m]
    BY DEF Below
  <2>2. m \in 1 .. n /\ m \in DOMAIN ConstraintLevels /\ n \in 1 .. L + 1
    BY <1>1
  <2>3. \/ IsSimple(c)
        \/ /\ c.type \in { "And", "Or", "Not" }
           /\ c.Constraints \in Seq(Below(m))
           /\ c.type = "Not" => Len(c.Constraints) = 1
    BY <2>1, <2>2, ConstraintsAssumption
  <2>4. CASE IsSimple(c)
    BY <2>4 DEF Built
  <2>5. CASE ~ IsSimple(c)
    <3>1. Below(m) \subseteq Below(n)
      BY <1>3, <2>2
    <3>2. c.Constraints \in Seq(Below(n))
      BY <2>3, <2>5, <3>1
    <3> QED
      BY <2>3, <2>5, <3>2 DEF Built
  <2> QED
    BY <2>4, <2>5
<1>5. \A n \in 1 .. L + 1 : Below(n) \subseteq Constraints
  <2>1. L + 1 \in 1 .. L + 1
    BY <1>1
  <2> QED
    BY <1>1, <1>3, <2>1 DEF Constraints, L
<1> QED
  BY <1>1, <1>2, <1>4, <1>5 DEF L

(* What holds of a constraint when it holds of those it is built from      *)
(* holds of all.                                                           *)
LEMMA ConstraintInduction ==
  ASSUME NEW S \in SUBSET Constraints,
         \A c \in Constraints : Built(c, S) => c \in S
  PROVE  S = Constraints
<1> DEFINE L == Len(ConstraintLevels)
           T == { n \in 1 .. L + 1 : ~ (Below(n) \subseteq S) }
<1>1. L \in Nat
  BY LevelsBuilt
<1>2. ASSUME T # {}
      PROVE  FALSE
  <2>1. T \in SUBSET Nat
    OBVIOUS
  <2>2. PICK n \in T : \A m \in T : n <= m
    BY <1>2, <2>1, LeastNatural
  <2>3. n \in 1 .. L + 1 /\ ~ (Below(n) \subseteq S)
    OBVIOUS
  <2>4. n # 1
    BY <2>3, LevelsBuilt
  <2>5. PICK m \in 1 .. L : n = m + 1
    <3>1. n - 1 \in 1 .. L /\ n = (n - 1) + 1
      BY <1>1, <2>3, <2>4
    <3> QED
      BY <3>1
  <2>6. m \notin T /\ m \in 1 .. L + 1
    BY <1>1, <2>2, <2>5
  <2>7. Below(m) \subseteq S
    BY <2>6
  <2>8. PICK c \in Below(m + 1) : c \notin S
    BY <2>3, <2>5
  <2>9. Built(c, Below(m)) /\ c \in Constraints
    <3>1. m + 1 \in 1 .. L + 1
      BY <1>1
    <3> QED
      BY <3>1, LevelsBuilt
  <2>10. Built(c, S)
    <3>1. c.Constraints \in Seq(Below(m)) => c.Constraints \in Seq(S)
      BY <2>7
    <3> QED
      BY <2>9, <3>1 DEF Built
  <2> QED
    BY <2>8, <2>9, <2>10
<1>3. Below(L + 1) \subseteq S
  <2>1. L + 1 \in 1 .. L + 1 /\ L + 1 \notin T
    BY <1>1, <1>2
  <2> QED
    BY <2>1
<1> QED
  BY <1>3 DEF Constraints

LEMMA ConstraintsBuilt ==
  ASSUME NEW c \in Constraints
  PROVE  Built(c, Constraints)
<1>1. PICK n \in Nat : n = Len(ConstraintLevels) /\ c \in Below(n + 1)
  BY LevelsBuilt DEF Constraints
<1>2. CASE n = 0
  BY <1>1, <1>2, LevelsBuilt
<1>3. CASE n # 0
  <2>1. n \in 1 .. n /\ n \in 1 .. n + 1
    BY <1>3
  <2>2. Built(c, Below(n)) /\ Below(n) \subseteq Constraints
    BY <1>1, <2>1, LevelsBuilt
  <2>3. c.Constraints \in Seq(Below(n)) => c.Constraints \in Seq(Constraints)
    BY <2>2
  <2> QED
    BY <2>2, <2>3 DEF Built
<1> QED
  BY <1>2, <1>3

(* A constraint that holds others holds these.                             *)
LEMMA Elements ==
  ASSUME NEW S, NEW c, Built(c, S), ~ IsSimple(c)
  PROVE  /\ c.type \in { "And", "Or", "Not" } /\ Len(c.Constraints) \in Nat
         /\ DOMAIN c.Constraints = 1 .. Len(c.Constraints)
         /\ \A i \in 1 .. Len(c.Constraints) : c.Constraints[i] \in S
         /\ c.type = "Not" => Len(c.Constraints) = 1
BY DEF Built

(* The same values for the constraints that c holds.                       *)
Agree(c, g, h) ==
  IsSimple(c) \/ \A i \in 1 .. Len(c.Constraints) : g[c.Constraints[i]] = h[c.Constraints[i]]

(* The value B for a constraint depends on its values for those it holds.  *)
Local(V, B) ==
  \A c \in Constraints : \A g, h \in [ Constraints -> V ] :
    Agree(c, g, h) => B[<< c, g >>] = B[<< c, h >>]

(* Such a function defines one of all constraints.                         *)
LEMMA ConstraintRecursion ==
  ASSUME NEW V, NEW v \in V,
         NEW B \in [ Constraints \X [ Constraints -> V ] -> V ], Local(V, B)
  PROVE  \E g \in [ Constraints -> V ] : \A c \in Constraints : g[c] = B[<< c, g >>]
<1> DEFINE L == Len(ConstraintLevels)
           Good(n, g) == \A c \in Below(n) : g[c] = B[<< c, g >>]
           T == { n \in 1 .. L + 1 : ~ \E g \in [ Constraints -> V ] : Good(n, g) }
<1>1. L \in Nat
  BY LevelsBuilt
<1>2. ASSUME T # {}
      PROVE  FALSE
  <2>1. T \in SUBSET Nat
    OBVIOUS
  <2>2. PICK n \in T : \A m \in T : n <= m
    BY <1>2, <2>1, LeastNatural
  <2>3. n \in 1 .. L + 1 /\ ~ \E g \in [ Constraints -> V ] : Good(n, g)
    OBVIOUS
  <2>4. n # 1
    <3>1. [ c \in Constraints |-> v ] \in [ Constraints -> V ]
      OBVIOUS
    <3>2. \A g : Good(1, g)
      BY LevelsBuilt
    <3> QED
      BY <2>3, <3>1, <3>2
  <2>5. PICK m \in 1 .. L : n = m + 1
    <3>1. n - 1 \in 1 .. L /\ n = (n - 1) + 1
      BY <1>1, <2>3, <2>4
    <3> QED
      BY <3>1
  <2>6. m \in 1 .. L + 1 /\ ~ (n <= m)
    BY <1>1, <2>5
  <2>7. PICK g \in [ Constraints -> V ] : Good(m, g)
    BY <2>2, <2>6
  <2> DEFINE h == [ c \in Constraints |-> B[<< c, g >>] ]
  <2>8. h \in [ Constraints -> V ] /\ \A c \in Constraints : h[c] = B[<< c, g >>]
    OBVIOUS
  <2> HIDE DEF h
  <2>9. Below(m + 1) \subseteq Constraints /\ Below(m) \subseteq Constraints
    <3>1. m + 1 \in 1 .. L + 1
      BY <1>1
    <3> QED
      BY <2>6, <3>1, LevelsBuilt
  <2>10. ASSUME NEW c \in Below(m + 1)
         PROVE  h[c] = B[<< c, h >>]
    <3>1. Built(c, Below(m))
      BY LevelsBuilt
    <3>2. \A e \in Below(m) : h[e] = g[e]
      BY <2>7, <2>8, <2>9
    <3>3. Agree(c, g, h)
      <4>1. CASE IsSimple(c)
        BY <4>1 DEF Agree
      <4>2. CASE ~ IsSimple(c)
        <5>1. \A i \in 1 .. Len(c.Constraints) : c.Constraints[i] \in Below(m)
          BY <3>1, <4>2, Elements
        <5> QED
          BY <3>2, <5>1 DEF Agree
      <4> QED
        BY <4>1, <4>2
    <3>4. B[<< c, g >>] = B[<< c, h >>]
      BY <2>8, <2>9, <3>3 DEF Local
    <3> QED
      BY <2>8, <2>9, <3>4
  <2> QED
    BY <2>3, <2>5, <2>8, <2>10
<1>3. L + 1 \in 1 .. L + 1
  BY <1>1
<1>4. PICK g \in [ Constraints -> V ] : Good(L + 1, g)
  BY <1>2, <1>3
<1> QED
  BY <1>4 DEF Constraints

-----------------------------------------------------------------------------
(* What constraints mean.                                                  *)

(* Of a constraint, when it is known of those it holds.                    *)
MatchesOf(c, g, id, entity) ==
  \/ MatchesSimple(c, id, entity)
  \/ c.type = "And" /\ \A i \in DOMAIN c.Constraints : g[c.Constraints[i]]
  \/ c.type = "Or" /\ \E i \in DOMAIN c.Constraints : g[c.Constraints[i]]
  \/ c.type = "Not" /\ ~g[c.Constraints[1]]

LEMMA SimpleOnly ==
  ASSUME NEW c, NEW id, NEW entity, MatchesSimple(c, id, entity)
  PROVE  IsSimple(c)
BY DEF MatchesSimple, IsSimple

LEMMA MatchesLocal ==
  ASSUME NEW id, NEW entity, NEW c \in Constraints, NEW g, NEW h, Agree(c, g, h)
  PROVE  MatchesOf(c, g, id, entity) = MatchesOf(c, h, id, entity)
<1>1. CASE IsSimple(c)
  <2>1. c.type \notin { "And", "Or", "Not" }
    BY <1>1 DEF IsSimple
  <2> QED
    BY <2>1 DEF MatchesOf
<1>2. CASE ~ IsSimple(c)
  <2>1. Built(c, Constraints)
    BY ConstraintsBuilt
  <2>2. /\ DOMAIN c.Constraints = 1 .. Len(c.Constraints)
        /\ c.type = "Not" => 1 \in DOMAIN c.Constraints
    BY <1>2, <2>1, Elements
  <2>3. \A i \in DOMAIN c.Constraints : g[c.Constraints[i]] = h[c.Constraints[i]]
    BY <1>2, <2>2 DEF Agree
  <2> QED
    BY <2>2, <2>3 DEF MatchesOf
<1> QED
  BY <1>1, <1>2

(* Matches is defined for all constraints by what it says of each.         *)
LEMMA MatchesAll ==
  ASSUME NEW id, NEW entity, NEW c \in Constraints
  PROVE  Matches(c, id, entity)
           = MatchesOf(c, [ x \in Constraints |-> Matches(x, id, entity) ], id, entity)
<1> DEFINE Body(g) ==
             [ x \in Constraints |->
                 \/ MatchesSimple(x, id, entity)
                 \/ x.type = "And" /\ \A i \in DOMAIN x.Constraints : g[x.Constraints[i]]
                 \/ x.type = "Or" /\ \E i \in DOMAIN x.Constraints : g[x.Constraints[i]]
                 \/ x.type = "Not" /\ ~g[x.Constraints[1]] ]
           f == CHOOSE g : g = Body(g)
           B == [ at \in Constraints \X [ Constraints -> BOOLEAN ] |->
                    MatchesOf(at[1], at[2], id, entity) ]
<1>1. \A x : Matches(x, id, entity) = f[x]
  BY DEF Matches
<1>2. \A g : Body(g) = [ x \in Constraints |-> MatchesOf(x, g, id, entity) ]
  BY DEF MatchesOf
<1> HIDE DEF Body
<1>3. \A x, g : MatchesOf(x, g, id, entity) \in BOOLEAN
  BY Zenon DEF MatchesOf
<1>4. /\ B \in [ Constraints \X [ Constraints -> BOOLEAN ] -> BOOLEAN ]
      /\ \A x \in Constraints : \A g \in [ Constraints -> BOOLEAN ] :
           B[<< x, g >>] = MatchesOf(x, g, id, entity)
  BY <1>3
<1> HIDE DEF B
<1>5. Local(BOOLEAN, B)
  BY <1>4, MatchesLocal DEF Local
<1>6. PICK g \in [ Constraints -> BOOLEAN ] : \A x \in Constraints : g[x] = B[<< x, g >>]
  <2>1. TRUE \in BOOLEAN
    OBVIOUS
  <2> QED
    BY <1>4, <1>5, <2>1, ConstraintRecursion, Zenon
<1>7. g = Body(g)
  <2>1. g = [ x \in Constraints |-> g[x] ]
    OBVIOUS
  <2>2. \A x \in Constraints : g[x] = MatchesOf(x, g, id, entity)
    BY <1>4, <1>6, Zenon
  <2> QED
    BY <1>2, <2>1, <2>2, Zenon
<1>8. f = Body(f)
  BY <1>7, Zenon
<1> HIDE DEF f
<1>9. \A x \in Constraints : f[x] = MatchesOf(x, f, id, entity)
  <2> PICK h : h = f
    OBVIOUS
  <2>1. h = [ x \in Constraints |-> MatchesOf(x, h, id, entity) ]
    BY <1>2, <1>8, Zenon
  <2>2. \A x \in Constraints : h[x] = MatchesOf(x, h, id, entity)
    BY <2>1
  <2> QED
    BY <2>2, Zenon
<1> DEFINE m == [ x \in Constraints |-> Matches(x, id, entity) ]
<1>10. \A x \in Constraints : f[x] = m[x]
  BY <1>1
<1>11. Agree(c, f, m)
  <2>1. CASE IsSimple(c)
    BY <2>1 DEF Agree
  <2>2. CASE ~ IsSimple(c)
    <3>1. Built(c, Constraints)
      BY ConstraintsBuilt
    <3>2. \A i \in 1 .. Len(c.Constraints) : c.Constraints[i] \in Constraints
      BY <2>2, <3>1, Elements
    <3> QED
      BY <1>10, <3>2 DEF Agree
  <2> QED
    BY <2>1, <2>2
<1>12. MatchesOf(c, f, id, entity) = MatchesOf(c, m, id, entity)
  BY <1>11, MatchesLocal
<1> QED
  BY <1>1, <1>9, <1>12

-----------------------------------------------------------------------------
(* The conversion.                                                         *)

Results == [ result : Nodes, storage : Storages ]

Conversions == Constraints \X Storages

Put(t, p, i, node) == [ t EXCEPT ![p][i] = node ]

(* What u is after it.                                                     *)
HasPut(u, t, p, i, node) ==
  /\ Len(u) = Len(t)
  /\ \A k \in 1 .. Len(t) : u[k] = IF k = p THEN [ t[k] EXCEPT ![i] = node ] ELSE t[k]

LEMMA PutIs ==
  ASSUME NEW X, NEW t \in Seq(Seq(X)), NEW p, NEW i, NEW node \in X
  PROVE  /\ Put(t, p, i, node) \in Seq(Seq(X))
         /\ HasPut(Put(t, p, i, node), t, p, i, node)
<1> DEFINE n == Len(t)
           u == [ t EXCEPT ![p] = [ t[p] EXCEPT ![i] = node ] ]
<1>1. n \in Nat /\ DOMAIN t = 1 .. n /\ \A k \in 1 .. n : t[k] \in Seq(X)
  OBVIOUS
<1>2. Put(t, p, i, node) = u
  BY DEF Put
<1>3. /\ DOMAIN u = 1 .. n /\ u = [ k \in 1 .. n |-> u[k] ]
      /\ \A k \in 1 .. n : u[k] = IF k = p THEN [ t[k] EXCEPT ![i] = node ] ELSE t[k]
  BY <1>1
<1> HIDE DEF u
<1>4. ASSUME NEW k \in 1 .. n
      PROVE  u[k] \in Seq(X)
  <2>1. CASE k # p
    BY <1>1, <1>3, <2>1
  <2>2. CASE k = p
    <3> DEFINE x == t[k]
               m == Len(x)
               y == [ x EXCEPT ![i] = node ]
    <3>1. x \in Seq(X) /\ m \in Nat /\ x \in [ 1 .. m -> X ]
      BY <1>1
    <3> HIDE DEF x, m
    <3>2. y \in [ 1 .. m -> X ]
      BY <3>1
    <3>3. \A l \in Nat : \A f \in [ 1 .. l -> X ] : f \in Seq(X)
      BY SeqDef
    <3>4. y \in Seq(X)
      BY <3>1, <3>2, <3>3
    <3> QED
      BY <1>3, <2>2, <3>4 DEF x
  <2> QED
    BY <2>1, <2>2
<1>5. u \in [ 1 .. n -> Seq(X) ]
  BY <1>3, <1>4
<1>6. \A l \in Nat : \A f \in [ 1 .. l -> Seq(X) ] : f \in Seq(Seq(X)) /\ Len(f) = l
  BY SeqDef
<1>7. u \in Seq(Seq(X)) /\ Len(u) = n
  BY <1>1, <1>5, <1>6
<1> QED
  BY <1>2, <1>3, <1>7 DEF HasPut

(* An array is allocated.                                                  *)
Allocated(c, s) == Append(s, [ i \in 1 .. Len(c.Constraints) |-> Null ])

LEMMA AllocatedIs ==
  ASSUME NEW c, Len(c.Constraints) \in Nat, NEW s \in Storages
  PROVE  /\ Allocated(c, s) \in Storages
         /\ Len(s) \in Nat /\ Len(Allocated(c, s)) = Len(s) + 1
         /\ Allocated(c, s)[Len(s) + 1] = [ i \in 1 .. Len(c.Constraints) |-> Null ]
         /\ \A k \in 1 .. Len(s) : Allocated(c, s)[k] = s[k]
<1> DEFINE X == Nodes \cup {Null}
           n == Len(c.Constraints)
           a == [ i \in 1 .. n |-> Null ]
<1>1. a \in Seq(X)
  <2>1. a \in [ 1 .. n -> X ]
    OBVIOUS
  <2> HIDE DEF a, X
  <2> QED
    BY <2>1, SeqDef
<1>2. s \in Seq(Seq(X))
  BY DEF Storages
<1> HIDE DEF X, a
<1>3. /\ Append(s, a) \in Seq(Seq(X)) /\ Len(s) \in Nat /\ Len(Append(s, a)) = Len(s) + 1
      /\ Append(s, a)[Len(s) + 1] = a
      /\ \A k \in 1 .. Len(s) : Append(s, a)[k] = s[k]
  BY <1>1, <1>2
<1> QED
  BY <1>3 DEF Allocated, Storages, X, a

(* The storages there are while its elements are converted.                *)
Fills(c, s, g, u) ==
  /\ u[0] = Allocated(c, s)
  /\ \A i \in 1 .. Len(c.Constraints) :
       u[i] = Put(g[<< c.Constraints[i], u[i - 1] >>].storage, Len(s) + 1, i,
                  g[<< c.Constraints[i], u[i - 1] >>].result)

FilledBy(c, s, g) ==
  LET filled[i \in 0 .. Len(c.Constraints)] ==
        IF i = 0 THEN Allocated(c, s)
        ELSE Put(g[<< c.Constraints[i], filled[i - 1] >>].storage, Len(Allocated(c, s)), i,
                 g[<< c.Constraints[i], filled[i - 1] >>].result)
  IN  filled[Len(c.Constraints)]

(* The elements of c are converted to something by g.                      *)
Typed(c, g) ==
  \A i \in 1 .. Len(c.Constraints) : \A t \in Storages : g[<< c.Constraints[i], t >>] \in Results

(* They are converted to the same, where they are to be converted.         *)
SameOn(c, g, h, u) ==
  \A i \in 1 .. Len(c.Constraints) :
    g[<< c.Constraints[i], u[i - 1] >>] = h[<< c.Constraints[i], u[i - 1] >>]

LEMMA SameFill ==
  ASSUME NEW c, Len(c.Constraints) \in Nat, NEW s, NEW g, NEW h, NEW u, NEW w,
         Fills(c, s, g, u), Fills(c, s, h, w), SameOn(c, g, h, u)
  PROVE  u[Len(c.Constraints)] = w[Len(c.Constraints)]
<1> DEFINE n == Len(c.Constraints)
           T == { i \in 0 .. n : u[i] # w[i] }
<1>1. SUFFICES ASSUME T # {}
               PROVE  FALSE
  OBVIOUS
<1>2. T \in SUBSET Nat
  OBVIOUS
<1>3. PICK i \in T : \A j \in T : i <= j
  BY <1>1, <1>2, LeastNatural
<1>4. i \in 0 .. n /\ u[i] # w[i]
  OBVIOUS
<1>5. i # 0
  BY <1>4 DEF Fills
<1>6. i \in 1 .. n /\ i - 1 \in 0 .. n /\ ~ (i <= i - 1)
  BY <1>4, <1>5
<1>7. u[i - 1] = w[i - 1]
  BY <1>3, <1>6
<1>8. u[i] = w[i]
  BY <1>6, <1>7 DEF Fills, SameOn
<1> QED
  BY <1>4, <1>8

LEMMA FilledIs ==
  ASSUME NEW c, Len(c.Constraints) \in Nat, NEW s \in Storages, NEW g, Typed(c, g)
  PROVE  \E u \in [ 0 .. Len(c.Constraints) -> Storages ] :
           Fills(c, s, g, u) /\ FilledBy(c, s, g) = u[Len(c.Constraints)]
<1> DEFINE n == Len(c.Constraints)
           p == Len(s) + 1
           step(i, t) == Put(g[<< c.Constraints[i], t >>].storage, p, i,
                             g[<< c.Constraints[i], t >>].result)
           G == [ at \in (1 .. n) \X Storages |-> step(at[1], at[2]) ]
           Body(f) == [ i \in 0 .. n |-> IF i = 0 THEN Allocated(c, s) ELSE step(i, f[i - 1]) ]
           filled == CHOOSE f : f = Body(f)
<1>1. Allocated(c, s) \in Storages /\ Len(Allocated(c, s)) = p
  BY AllocatedIs
<1>2. FilledBy(c, s, g) = filled[n]
  BY <1>1 DEF FilledBy
<1>3. \A i \in 1 .. n : \A t \in Storages : step(i, t) \in Storages
  <2> SUFFICES ASSUME NEW i \in 1 .. n, NEW t \in Storages
               PROVE  step(i, t) \in Storages
    OBVIOUS
  <2>1. g[<< c.Constraints[i], t >>] \in Results
    BY DEF Typed
  <2>2. PICK r : r = g[<< c.Constraints[i], t >>]
    OBVIOUS
  <2>3. r.storage \in Seq(Seq(Nodes \cup {Null})) /\ r.result \in Nodes \cup {Null}
    BY <2>1, <2>2 DEF Results, Storages
  <2>4. Put(r.storage, p, i, r.result) \in Seq(Seq(Nodes \cup {Null}))
    BY <2>3, PutIs
  <2> QED
    BY <2>2, <2>4 DEF Storages
<1> HIDE DEF step
<1>4. \A i \in 1 .. n : \A t \in Storages : G[<< i, t >>] = step(i, t)
  OBVIOUS
<1> HIDE DEF G, n
<1>5. PICK u \in [ 0 .. n -> Storages ] : Runs(n, Allocated(c, s), G, u)
  <2>1. \A i \in 1 .. n : \A t \in Storages : G[<< i, t >>] \in Storages
    BY <1>3, <1>4
  <2>2. n \in Nat
    BY DEF n
  <2> QED
    BY <1>1, <2>1, <2>2, RunExists
<1>6. u[0] = Allocated(c, s) /\ \A i \in 1 .. n : u[i] = step(i, u[i - 1])
  <2>1. \A i \in 1 .. n : u[i - 1] \in Storages
    BY DEF n
  <2>2. u[0] = Allocated(c, s) /\ \A i \in 1 .. n : u[i] = G[<< i, u[i - 1] >>]
    BY <1>5 DEF Runs
  <2> QED
    BY <1>4, <2>1, <2>2, Zenon
<1>7. u = Body(u)
  <2>1. u = [ i \in 0 .. n |-> u[i] ]
    OBVIOUS
  <2>2. \A i \in 0 .. n : (IF i = 0 THEN Allocated(c, s) ELSE step(i, u[i - 1])) = u[i]
    <3>1. \A i \in 0 .. n : i = 0 \/ i \in 1 .. n
      BY DEF n
    <3> QED
      BY <1>6, <3>1
  <2> QED
    BY <2>1, <2>2
<1>8. filled = Body(filled)
  <2> HIDE DEF Body
  <2> QED
    BY <1>7
<1>9. filled[0] = Allocated(c, s) /\ \A i \in 1 .. n : filled[i] = step(i, filled[i - 1])
  <2> PICK f : f = filled
    OBVIOUS
  <2>1. f = Body(f)
    BY <1>8
  <2> HIDE DEF filled
  <2>2. 0 \in 0 .. n /\ \A i \in 1 .. n : i \in 0 .. n /\ i # 0
    BY DEF n
  <2>3. f[0] = Allocated(c, s) /\ \A i \in 1 .. n : f[i] = step(i, f[i - 1])
    BY <2>1, <2>2
  <2> QED
    BY <2>3
<1> HIDE DEF filled, Body
<1>10. Fills(c, s, g, u) /\ Fills(c, s, g, filled)
  BY <1>6, <1>9 DEF Fills, step, n
<1>11. u[n] = filled[n]
  <2>1. SameOn(c, g, g, u)
    BY DEF SameOn
  <2> QED
    BY <1>10, <2>1, SameFill DEF n
<1> QED
  BY <1>2, <1>10, <1>11 DEF n

(* What a constraint is converted to, when it is known what those it holds *)
(* are.                                                                    *)
Compound(c, s) ==
  [ type |-> c.type, ConstraintCount |-> Len(c.Constraints), Constraint |-> Len(s) + 1 ]

ConvertOf(c, s, g) ==
  IF IsSimple(c) THEN [ result |-> c, storage |-> s ]
  ELSE [ result |-> Compound(c, s), storage |-> FilledBy(c, s, g) ]

LEMMA ConvertTyped ==
  ASSUME NEW c \in Constraints, NEW s \in Storages, NEW g, ~ IsSimple(c) => Typed(c, g)
  PROVE  ConvertOf(c, s, g) \in Results
<1>1. CASE IsSimple(c)
  <2>1. c \in Nodes
    BY <1>1 DEF Nodes
  <2> QED
    BY <1>1, <2>1 DEF ConvertOf, Results
<1>2. CASE ~ IsSimple(c)
  <2>1. Built(c, Constraints)
    BY ConstraintsBuilt
  <2>2. c.type \in { "And", "Or", "Not" } /\ Len(c.Constraints) \in Nat
    BY <1>2, <2>1, Elements
  <2>3. Len(s) + 1 \in Nat
    BY DEF Storages
  <2>4. Compound(c, s) \in Nodes
    BY <2>2, <2>3 DEF Compound, Nodes
  <2>5. FilledBy(c, s, g) \in Storages
    <3>1. PICK u \in [ 0 .. Len(c.Constraints) -> Storages ] :
            FilledBy(c, s, g) = u[Len(c.Constraints)]
      BY <1>2, <2>2, FilledIs
    <3>2. Len(c.Constraints) \in 0 .. Len(c.Constraints)
      BY <2>2
    <3> QED
      BY <3>1, <3>2
  <2> QED
    BY <1>2, <2>4, <2>5 DEF ConvertOf, Results
<1> QED
  BY <1>1, <1>2

LEMMA ConvertLocal ==
  ASSUME NEW c \in Constraints, NEW s \in Storages,
         NEW g \in [ Conversions -> Results ], NEW h \in [ Conversions -> Results ],
         ~ IsSimple(c) =>
           \A i \in 1 .. Len(c.Constraints) : \A t \in Storages :
             g[<< c.Constraints[i], t >>] = h[<< c.Constraints[i], t >>]
  PROVE  ConvertOf(c, s, g) = ConvertOf(c, s, h)
<1>1. CASE IsSimple(c)
  BY <1>1 DEF ConvertOf
<1>2. CASE ~ IsSimple(c)
  <2> DEFINE n == Len(c.Constraints)
  <2>1. Built(c, Constraints)
    BY ConstraintsBuilt
  <2>2. n \in Nat /\ \A i \in 1 .. n : c.Constraints[i] \in Constraints
    BY <1>2, <2>1, Elements
  <2>3. Typed(c, g) /\ Typed(c, h)
    BY <2>2 DEF Typed, Conversions
  <2>4. PICK u \in [ 0 .. n -> Storages ] : Fills(c, s, g, u) /\ FilledBy(c, s, g) = u[n]
    BY <2>2, <2>3, FilledIs
  <2>5. PICK w \in [ 0 .. n -> Storages ] : Fills(c, s, h, w) /\ FilledBy(c, s, h) = w[n]
    BY <2>2, <2>3, FilledIs
  <2>6. \A i \in 1 .. n : u[i - 1] \in Storages
    BY <2>2
  <2>7. SameOn(c, g, h, u)
    BY <1>2, <2>6 DEF SameOn
  <2>8. u[n] = w[n]
    BY <2>2, <2>4, <2>5, <2>7, SameFill
  <2> QED
    BY <1>2, <2>4, <2>5, <2>8 DEF ConvertOf
<1> QED
  BY <1>1, <1>2

LEMMA ConvertExists ==
  \E g \in [ Conversions -> Results ] :
    g = [ at \in Conversions |-> ConvertOf(at[1], at[2], g) ]
<1> DEFINE V == [ Storages -> Results ]
           Paired(h) == [ at \in Conversions |-> h[at[1]][at[2]] ]
           Row(c, h) == [ s \in Storages |-> ConvertOf(c, s, Paired(h)) ]
           B == [ at \in Constraints \X [ Constraints -> V ] |-> Row(at[1], at[2]) ]
<1>1. ASSUME NEW h \in [ Constraints -> V ]
      PROVE  /\ Paired(h) \in [ Conversions -> Results ]
             /\ \A c \in Constraints : \A s \in Storages : Paired(h)[<< c, s >>] = h[c][s]
  BY DEF Conversions
<1>2. ASSUME NEW h \in [ Constraints -> V ], NEW c \in Constraints
      PROVE  Row(c, h) \in V
  <2> HIDE DEF Paired
  <2>1. ASSUME NEW s \in Storages
        PROVE  ConvertOf(c, s, Paired(h)) \in Results
    <3>1. Paired(h) \in [ Conversions -> Results ]
      BY <1>1
    <3>2. ~ IsSimple(c) => Typed(c, Paired(h))
      <4>1. Built(c, Constraints)
        BY ConstraintsBuilt
      <4>2. ~ IsSimple(c) => \A i \in 1 .. Len(c.Constraints) : c.Constraints[i] \in Constraints
        BY <4>1, Elements
      <4> QED
        BY <3>1, <4>2 DEF Typed, Conversions
    <3> QED
      BY <3>2, ConvertTyped
  <2> QED
    BY <2>1
<1>3. \A c \in Constraints : \A s \in Storages : \A h \in [ Constraints -> V ] :
        Row(c, h)[s] = ConvertOf(c, s, Paired(h))
  OBVIOUS
<1>4. ASSUME NEW c \in Constraints, NEW g \in [ Constraints -> V ], NEW h \in [ Constraints -> V ],
             Agree(c, g, h)
      PROVE  Row(c, g) = Row(c, h)
  <2> HIDE DEF Paired
  <2>1. Built(c, Constraints)
    BY ConstraintsBuilt
  <2>2. ~ IsSimple(c) =>
          \A i \in 1 .. Len(c.Constraints) : \A t \in Storages :
            Paired(g)[<< c.Constraints[i], t >>] = Paired(h)[<< c.Constraints[i], t >>]
    <3> SUFFICES ASSUME ~ IsSimple(c), NEW i \in 1 .. Len(c.Constraints), NEW t \in Storages
                 PROVE  Paired(g)[<< c.Constraints[i], t >>] = Paired(h)[<< c.Constraints[i], t >>]
      OBVIOUS
    <3>1. c.Constraints[i] \in Constraints
      BY <2>1, Elements
    <3>2. g[c.Constraints[i]] = h[c.Constraints[i]]
      BY <1>4 DEF Agree
    <3> QED
      BY <1>1, <3>1, <3>2
  <2>3. \A s \in Storages : ConvertOf(c, s, Paired(g)) = ConvertOf(c, s, Paired(h))
    <3>1. Paired(g) \in [ Conversions -> Results ] /\ Paired(h) \in [ Conversions -> Results ]
      BY <1>1
    <3> QED
      BY <2>2, <3>1, ConvertLocal
  <2> QED
    BY <2>3
<1> HIDE DEF Row, Paired, V
<1>5. /\ B \in [ Constraints \X [ Constraints -> V ] -> V ]
      /\ \A c \in Constraints : \A h \in [ Constraints -> V ] : B[<< c, h >>] = Row(c, h)
  BY <1>2
<1> HIDE DEF B
<1>6. Local(V, B)
  BY <1>4, <1>5 DEF Local
<1>7. \E v : v \in V
  <2> DEFINE node == [ type |-> "And", ConstraintCount |-> 0, Constraint |-> 0 ]
             r == [ result |-> node, storage |-> << >> ]
  <2>1. << >> \in Storages
    BY DEF Storages
  <2>2. node \in Nodes
    BY DEF Nodes
  <2>3. r \in Results
    BY <2>1, <2>2 DEF Results
  <2> HIDE DEF r
  <2>4. [ s \in Storages |-> r ] \in V
    BY <2>3 DEF V
  <2> QED
    BY <2>4
<1>8. PICK h \in [ Constraints -> V ] : \A c \in Constraints : h[c] = B[<< c, h >>]
  BY <1>5, <1>6, <1>7, ConstraintRecursion
<1> DEFINE g == Paired(h)
<1>9. g \in [ Conversions -> Results ]
  BY <1>1
<1>10. ASSUME NEW at \in Conversions
       PROVE  g[at] = ConvertOf(at[1], at[2], g)
  <2>1. at[1] \in Constraints /\ at[2] \in Storages /\ at = << at[1], at[2] >>
    BY DEF Conversions
  <2>2. g[<< at[1], at[2] >>] = h[at[1]][at[2]]
    BY <1>1, <2>1
  <2>3. h[at[1]] = Row(at[1], h)
    BY <1>5, <1>8, <2>1
  <2>4. Row(at[1], h)[at[2]] = ConvertOf(at[1], at[2], g)
    BY <1>3, <2>1
  <2> QED
    BY <2>1, <2>2, <2>3, <2>4
<1>11. g = [ at \in Conversions |-> ConvertOf(at[1], at[2], g) ]
  BY <1>9, <1>10
<1> QED
  BY <1>9, <1>11

(* ConvertConstraint, as a function of its arguments.                      *)
Converted == [ at \in Conversions |-> ConvertConstraint(at[1], at[2]) ]

LEMMA ConvertAll ==
  \A c \in Constraints : \A s \in Storages :
    /\ ConvertConstraint(c, s) = ConvertOf(c, s, Converted)
    /\ ConvertConstraint(c, s) \in Results
<1> DEFINE Body(g) == [ at \in Conversions |-> ConvertOf(at[1], at[2], g) ]
           f == CHOOSE g : g = Body(g)
<1>1. \A c, s : ConvertConstraint(c, s) = f[<< c, s >>]
  BY DEF ConvertConstraint, ConvertOf, FilledBy, Put, Compound, Array, Allocated, Conversions
<1>2. f = Body(f)
  <2>1. \E g : g = Body(g)
    BY ConvertExists
  <2> HIDE DEF Body
  <2> QED
    BY <2>1
<1>3. /\ DOMAIN f = Conversions /\ f = [ at \in Conversions |-> f[at] ]
      /\ \A c \in Constraints : \A s \in Storages : f[<< c, s >>] = ConvertOf(c, s, f)
  <2> PICK g : g = f
    OBVIOUS
  <2>1. g = Body(g)
    BY <1>2
  <2> HIDE DEF f
  <2>2. DOMAIN g = Conversions /\ g = [ at \in Conversions |-> g[at] ]
    BY <2>1
  <2>3. \A c \in Constraints : \A s \in Storages : g[<< c, s >>] = ConvertOf(c, s, g)
    <3> SUFFICES ASSUME NEW c \in Constraints, NEW s \in Storages
                 PROVE  g[<< c, s >>] = ConvertOf(c, s, g)
      OBVIOUS
    <3>1. << c, s >> \in Conversions
      BY DEF Conversions
    <3> QED
      BY <2>1, <3>1
  <2> QED
    BY <2>2, <2>3
<1> HIDE DEF f, Body
<1>4. Converted = f
  <2>1. \A at \in Conversions : ConvertConstraint(at[1], at[2]) = f[at]
    BY <1>1 DEF Conversions
  <2> QED
    BY <1>3, <2>1 DEF Converted
<1> DEFINE S == { c \in Constraints : \A s \in Storages : f[<< c, s >>] \in Results }
<1>5. ASSUME NEW c \in Constraints, Built(c, S)
      PROVE  c \in S
  <2>1. ~ IsSimple(c) => \A i \in 1 .. Len(c.Constraints) : c.Constraints[i] \in S
    BY <1>5, Elements
  <2>2. ~ IsSimple(c) => Typed(c, f)
    BY <2>1 DEF Typed
  <2>3. \A s \in Storages : f[<< c, s >>] \in Results
    BY <1>3, <2>2, ConvertTyped
  <2> QED
    BY <2>3
<1>6. S = Constraints
  <2>1. S \in SUBSET Constraints
    OBVIOUS
  <2> HIDE DEF S
  <2> QED
    BY <1>5, <2>1, ConstraintInduction
<1> QED
  BY <1>1, <1>3, <1>4, <1>6

(* How a constraint that holds others is converted: they are, one after    *)
(* the other, into the array that was allocated first.                     *)
LEMMA ConvertSteps ==
  ASSUME NEW c \in Constraints, ~ IsSimple(c), NEW s \in Storages
  PROVE  \E u \in [ 0 .. Len(c.Constraints) -> Storages ] :
           /\ Fills(c, s, Converted, u)
           /\ ConvertConstraint(c, s)
                = [ result |-> Compound(c, s), storage |-> u[Len(c.Constraints)] ]
<1>1. Built(c, Constraints)
  BY ConstraintsBuilt
<1>2. Len(c.Constraints) \in Nat /\ \A i \in 1 .. Len(c.Constraints) : c.Constraints[i] \in Constraints
  BY <1>1, Elements
<1>3. \A x \in Constraints : \A t \in Storages : Converted[<< x, t >>] \in Results
  BY ConvertAll DEF Converted, Conversions
<1>4. Typed(c, Converted)
  BY <1>2, <1>3 DEF Typed
<1>5. ConvertConstraint(c, s) = [ result |-> Compound(c, s), storage |-> FilledBy(c, s, Converted) ]
  BY ConvertAll DEF ConvertOf
<1> QED
  BY <1>2, <1>4, <1>5, FilledIs

-----------------------------------------------------------------------------
(* What stands for a constraint: itself, or a pointer to the array of the  *)
(* one, which src knows, that it was allocated for.                        *)
Stands(x, c, src) ==
  IF IsSimple(c) THEN x = c
  ELSE /\ x.type = c.type /\ x.ConstraintCount = Len(c.Constraints)
       /\ x.Constraint \in DOMAIN src /\ src[x.Constraint] = c

(* An array with what stands for all that c holds.                         *)
Full(a, c, src) ==
  /\ ~ IsSimple(c) /\ DOMAIN a = 1 .. Len(c.Constraints)
  /\ \A i \in 1 .. Len(c.Constraints) : Stands(a[i], c.Constraints[i], src)

Kept(s, t) == Len(t) >= Len(s) /\ \A k \in 1 .. Len(s) : t[k] = s[k]

(* A conversion adds full arrays, and what results stands for c.           *)
Adds(c, s, converted) ==
  /\ Kept(s, converted.storage)
  /\ \E src \in [ Len(s) + 1 .. Len(converted.storage) -> Constraints ] :
       /\ Stands(converted.result, c, src)
       /\ \A k \in Len(s) + 1 .. Len(converted.storage) :
            Full(converted.storage[k], src[k], src)

LEMMA StandsStill ==
  ASSUME NEW x, NEW c, NEW src, NEW more, Stands(x, c, src),
         DOMAIN src \subseteq DOMAIN more, \A k \in DOMAIN src : more[k] = src[k]
  PROVE  Stands(x, c, more)
BY DEF Stands

LEMMA FullStill ==
  ASSUME NEW a, NEW c, NEW src, NEW more, Full(a, c, src),
         DOMAIN src \subseteq DOMAIN more, \A k \in DOMAIN src : more[k] = src[k]
  PROVE  Full(a, c, more)
BY StandsStill DEF Full

(* While the elements of c are converted, i of them are.                   *)
Filling(c, s, t, i) ==
  /\ Kept(s, t) /\ Len(t) >= Len(s) + 1
  /\ DOMAIN t[Len(s) + 1] = 1 .. Len(c.Constraints)
  /\ \E src \in [ Len(s) + 1 .. Len(t) -> Constraints ] :
       /\ src[Len(s) + 1] = c
       /\ \A k \in Len(s) + 2 .. Len(t) : Full(t[k], src[k], src)
       /\ \A j \in 1 .. i : Stands(t[Len(s) + 1][j], c.Constraints[j], src)

LEMMA FillingStarts ==
  ASSUME NEW c \in Constraints, ~ IsSimple(c), NEW s \in Storages
  PROVE  Filling(c, s, Allocated(c, s), 0)
<1> DEFINE n == Len(s)
           t == Allocated(c, s)
           src == [ k \in n + 1 .. Len(t) |-> c ]
<1>1. Built(c, Constraints)
  BY ConstraintsBuilt
<1>2. Len(c.Constraints) \in Nat
  BY <1>1, Elements
<1>3. /\ n \in Nat /\ Len(t) = n + 1
      /\ t[n + 1] = [ i \in 1 .. Len(c.Constraints) |-> Null ]
      /\ \A k \in 1 .. n : t[k] = s[k]
  BY <1>2, AllocatedIs
<1> HIDE DEF t
<1>4. src \in [ n + 1 .. Len(t) -> Constraints ] /\ src[n + 1] = c
  BY <1>3
<1>5. n + 2 .. Len(t) = {} /\ 1 .. 0 = {} /\ Len(t) >= n
  BY <1>3
<1>6. DOMAIN t[n + 1] = 1 .. Len(c.Constraints)
  BY <1>3
<1> HIDE DEF src
<1>7. Kept(s, t)
  BY <1>3, <1>5 DEF Kept
<1> QED
  BY <1>3, <1>4, <1>5, <1>6, <1>7 DEF Filling, t

LEMMA PutResult ==
  ASSUME NEW r, r \in Results, NEW p, NEW i
  PROVE  /\ Len(r.storage) \in Nat
         /\ HasPut(Put(r.storage, p, i, r.result), r.storage, p, i, r.result)
<1> DEFINE X == Nodes \cup {Null}
<1>1. r.storage \in Seq(Seq(X)) /\ r.result \in X
  BY DEF Results, Storages
<1> HIDE DEF X
<1>2. Len(r.storage) \in Nat
  BY <1>1
<1> QED
  BY <1>1, <1>2, PutIs

(* One more element.                                                       *)
LEMMA FillingStep ==
  ASSUME NEW c \in Constraints, ~ IsSimple(c), NEW s \in Storages,
         NEW i \in 1 .. Len(c.Constraints), NEW t \in Storages, Filling(c, s, t, i - 1),
         NEW r, r \in Results, Adds(c.Constraints[i], t, r)
  PROVE  Filling(c, s, Put(r.storage, Len(s) + 1, i, r.result), i)
<1> DEFINE p == Len(s) + 1
           n == Len(c.Constraints)
           v == r.storage
           w == Put(v, p, i, r.result)
<1>1. Built(c, Constraints)
  BY ConstraintsBuilt
<1>2. n \in Nat /\ Len(s) \in Nat /\ Len(t) \in Nat /\ p \in Nat /\ p >= 1
  BY <1>1, Elements DEF Storages
<1>0. Len(v) \in Nat /\ HasPut(w, v, p, i, r.result)
  BY PutResult
<1>3. /\ Len(v) \in Nat /\ Len(w) = Len(v)
      /\ \A k \in 1 .. Len(v) : w[k] = IF k = p THEN [ v[k] EXCEPT ![i] = r.result ] ELSE v[k]
  BY <1>0 DEF HasPut
<1> HIDE DEF w
<1>4. /\ Kept(s, t) /\ Len(t) >= p
      /\ DOMAIN t[p] = 1 .. n
  BY DEF Filling
<1>5. PICK src \in [ p .. Len(t) -> Constraints ] :
        /\ src[p] = c
        /\ \A k \in p + 1 .. Len(t) : Full(t[k], src[k], src)
        /\ \A j \in 1 .. i - 1 : Stands(t[p][j], c.Constraints[j], src)
  <2>1. p + 1 = Len(s) + 2
    BY <1>2
  <2> QED
    BY <2>1 DEF Filling
<1>6. /\ Kept(t, v)
      /\ \E new \in [ Len(t) + 1 .. Len(v) -> Constraints ] :
           /\ Stands(r.result, c.Constraints[i], new)
           /\ \A k \in Len(t) + 1 .. Len(v) : Full(v[k], new[k], new)
  BY DEF Adds
<1>7. PICK new \in [ Len(t) + 1 .. Len(v) -> Constraints ] :
        /\ Stands(r.result, c.Constraints[i], new)
        /\ \A k \in Len(t) + 1 .. Len(v) : Full(v[k], new[k], new)
  BY <1>6
<1>8. PICK x : x = r.result
  OBVIOUS
<1> HIDE DEF p, n, v
<1> DEFINE all == [ k \in p .. Len(v) |-> IF k <= Len(t) THEN src[k] ELSE new[k] ]
<1>9. Len(v) >= Len(t) /\ \A k \in 1 .. Len(t) : v[k] = t[k]
  BY <1>6 DEF Kept
<1>10. /\ all \in [ p .. Len(v) -> Constraints ]
       /\ \A k \in p .. Len(t) : k \in p .. Len(v) /\ all[k] = src[k]
       /\ \A k \in Len(t) + 1 .. Len(v) : k \in p .. Len(v) /\ all[k] = new[k]
  BY <1>2, <1>3, <1>4, <1>9
<1> HIDE DEF all
<1>11. all[p] = c
  BY <1>2, <1>4, <1>5, <1>10
<1>12. \A e, d : Stands(e, d, src) => Stands(e, d, all)
  <2>1. DOMAIN src = p .. Len(t) /\ DOMAIN all = p .. Len(v)
    BY <1>10
  <2> QED
    BY <1>10, <2>1, StandsStill
<1>13. \A e, d : Stands(e, d, new) => Stands(e, d, all)
  <2>1. DOMAIN new = Len(t) + 1 .. Len(v) /\ DOMAIN all = p .. Len(v)
    BY <1>10
  <2> QED
    BY <1>10, <2>1, StandsStill
<1>14. ASSUME NEW k \in p + 1 .. Len(w)
       PROVE  Full(w[k], all[k], all)
  <2>1. k \in 1 .. Len(v) /\ k # p
    BY <1>2, <1>3
  <2>4. w[k] = v[k]
    BY <1>3, <2>1
  <2>2. CASE k \in p + 1 .. Len(t)
    <3>1. k \in p .. Len(t) /\ k \in 1 .. Len(t)
      BY <1>2, <2>2
    <3>2. w[k] = t[k] /\ all[k] = src[k]
      BY <1>9, <1>10, <2>4, <3>1
    <3>3. Full(t[k], src[k], src)
      BY <1>5, <2>2
    <3>4. Full(t[k], src[k], all)
      BY <1>12, <3>3 DEF Full
    <3> QED
      BY <3>2, <3>4
  <2>3. CASE k \in Len(t) + 1 .. Len(v)
    <3>1. Full(v[k], new[k], new)
      BY <1>7, <2>3
    <3>2. Full(v[k], new[k], all)
      BY <1>13, <3>1 DEF Full
    <3> QED
      BY <1>10, <2>3, <2>4, <3>2
  <2> QED
    BY <1>2, <1>3, <2>2, <2>3
<1>15. p \in 1 .. Len(v) /\ p \in 1 .. Len(t)
  BY <1>2, <1>3, <1>4, <1>9 DEF p
<1>16. w[p] = [ t[p] EXCEPT ![i] = x ]
  BY <1>3, <1>8, <1>9, <1>15
<1>17. DOMAIN w[p] = 1 .. n
  BY <1>4, <1>16
<1>18. ASSUME NEW j \in 1 .. i
       PROVE  Stands(w[p][j], c.Constraints[j], all)
  <2>1. i \in 1 .. n /\ j \in 1 .. n
    BY <1>2 DEF n
  <2>2. CASE j = i
    <3>1. w[p][j] = x
      BY <1>4, <1>16, <2>1, <2>2
    <3> QED
      BY <1>7, <1>8, <1>13, <2>2, <3>1
  <2>3. CASE j # i
    <3>1. w[p][j] = t[p][j] /\ j \in 1 .. i - 1
      BY <1>4, <1>16, <2>1, <2>3
    <3> QED
      BY <1>5, <1>12, <3>1
  <2> QED
    BY <2>2, <2>3
<1>19. Kept(s, w) /\ Len(w) >= p
  <2>1. Len(t) >= Len(s) /\ \A k \in 1 .. Len(s) : t[k] = s[k]
    BY <1>4 DEF Kept
  <2>2. \A k \in 1 .. Len(s) : k \in 1 .. Len(t) /\ k \in 1 .. Len(v) /\ k # p
    BY <1>2, <1>3, <1>9, <2>1 DEF p
  <2>3. \A k \in 1 .. Len(s) : w[k] = s[k]
    BY <1>3, <1>9, <2>1, <2>2
  <2>4. Len(w) >= Len(s) /\ Len(w) >= p
    BY <1>2, <1>3, <1>4, <1>9, <2>1
  <2> QED
    BY <2>3, <2>4 DEF Kept
<1>20. p + 1 = Len(s) + 2 /\ all \in [ p .. Len(w) -> Constraints ]
  BY <1>2, <1>3, <1>10 DEF p
<1> QED
  BY <1>11, <1>14, <1>17, <1>18, <1>19, <1>20 DEF Filling, p, w, n, v

LEMMA FillingAll ==
  ASSUME NEW c \in Constraints, ~ IsSimple(c), NEW s \in Storages,
         NEW u \in [ 0 .. Len(c.Constraints) -> Storages ], Fills(c, s, Converted, u),
         \A i \in 1 .. Len(c.Constraints) : \A t \in Storages :
           Adds(c.Constraints[i], t, ConvertConstraint(c.Constraints[i], t))
  PROVE  Filling(c, s, u[Len(c.Constraints)], Len(c.Constraints))
<1> DEFINE n == Len(c.Constraints)
           T == { i \in 0 .. n : ~ Filling(c, s, u[i], i) }
<1>1. n \in Nat /\ \A i \in 1 .. n : c.Constraints[i] \in Constraints
  <2>1. Built(c, Constraints)
    BY ConstraintsBuilt
  <2> QED
    BY <2>1, Elements
<1>2. SUFFICES ASSUME T # {}
               PROVE  FALSE
  BY <1>1
<1>3. T \in SUBSET Nat
  OBVIOUS
<1>4. PICK i \in T : \A j \in T : i <= j
  BY <1>2, <1>3, LeastNatural
<1>5. i \in 0 .. n /\ ~ Filling(c, s, u[i], i)
  OBVIOUS
<1>6. i # 0
  BY <1>5, FillingStarts DEF Fills
<1>7. i \in 1 .. n /\ i - 1 \in 0 .. n /\ ~ (i <= i - 1)
  BY <1>5, <1>6
<1>8. Filling(c, s, u[i - 1], i - 1)
  BY <1>4, <1>7
<1> DEFINE x == c.Constraints[i]
           t == u[i - 1]
           r == ConvertConstraint(x, t)
<1>9. x \in Constraints /\ t \in Storages
  BY <1>1, <1>7
<1>10. r \in Results /\ Converted[<< x, t >>] = r
  BY <1>9, ConvertAll DEF Converted, Conversions
<1>11. Adds(x, t, r)
  BY <1>7, <1>9
<1>12. u[i] = Put(r.storage, Len(s) + 1, i, r.result)
  BY <1>7, <1>10 DEF Fills
<1> HIDE DEF r
<1>13. Filling(c, s, Put(r.storage, Len(s) + 1, i, r.result), i)
  BY <1>7, <1>8, <1>9, <1>10, <1>11, FillingStep
<1> QED
  BY <1>5, <1>12, <1>13

LEMMA CompoundAdds ==
  ASSUME NEW c \in Constraints, ~ IsSimple(c), NEW s \in Storages, NEW t \in Storages,
         Filling(c, s, t, Len(c.Constraints))
  PROVE  Adds(c, s, [ result |-> Compound(c, s), storage |-> t ])
<1> DEFINE p == Len(s) + 1
           r == [ result |-> Compound(c, s), storage |-> t ]
           x == Compound(c, s)
<1>1. Len(s) \in Nat /\ Len(t) \in Nat
  BY DEF Storages
<1>2. Kept(s, t) /\ Len(t) >= p /\ DOMAIN t[p] = 1 .. Len(c.Constraints)
  BY DEF Filling
<1>3. PICK src \in [ p .. Len(t) -> Constraints ] :
        /\ src[p] = c
        /\ \A k \in Len(s) + 2 .. Len(t) : Full(t[k], src[k], src)
        /\ \A j \in 1 .. Len(c.Constraints) : Stands(t[p][j], c.Constraints[j], src)
  BY DEF Filling
<1>4. Full(t[p], src[p], src)
  BY <1>2, <1>3 DEF Full
<1>5. \A k \in p .. Len(t) : Full(t[k], src[k], src)
  <2>1. \A k \in p .. Len(t) : k = p \/ k \in Len(s) + 2 .. Len(t)
    BY <1>1
  <2> QED
    BY <1>3, <1>4, <2>1
<1>6. p \in p .. Len(t)
  BY <1>1, <1>2
<1>7. x.type = c.type /\ x.ConstraintCount = Len(c.Constraints) /\ x.Constraint = p
  BY DEF Compound
<1> HIDE DEF x
<1>8. Stands(x, c, src)
  BY <1>3, <1>6, <1>7 DEF Stands
<1>9. r.result = x /\ r.storage = t
  BY DEF x
<1> HIDE DEF r
<1>10. Adds(c, s, r)
  BY <1>2, <1>3, <1>5, <1>8, <1>9 DEF Adds
<1> QED
  BY <1>10 DEF r

LEMMA SimpleAdds ==
  ASSUME NEW c \in Constraints, IsSimple(c), NEW s \in Storages
  PROVE  Adds(c, s, [ result |-> c, storage |-> s ])
<1> DEFINE r == [ result |-> c, storage |-> s ]
           src == [ k \in Len(s) + 1 .. Len(s) |-> c ]
<1>1. Len(s) \in Nat
  BY DEF Storages
<1>2. Len(s) + 1 .. Len(s) = {} /\ Len(s) >= Len(s)
  BY <1>1
<1>3. src \in [ Len(s) + 1 .. Len(s) -> Constraints ]
  OBVIOUS
<1> HIDE DEF src
<1>4. Stands(c, c, src)
  BY DEF Stands
<1>5. Kept(s, s)
  BY <1>2 DEF Kept
<1>6. r.result = c /\ r.storage = s
  OBVIOUS
<1> HIDE DEF r
<1>7. Adds(c, s, r)
  BY <1>2, <1>3, <1>4, <1>5, <1>6 DEF Adds
<1> QED
  BY <1>7 DEF r

(* ConvertConstraint leaves the arrays it finds as they are, and adds full *)
(* ones.                                                                   *)
LEMMA ConvertAdds ==
  ASSUME NEW c \in Constraints, NEW s \in Storages
  PROVE  Adds(c, s, ConvertConstraint(c, s))
<1> DEFINE S == { x \in Constraints : \A t \in Storages : Adds(x, t, ConvertConstraint(x, t)) }
<1>1. ASSUME NEW x \in Constraints, Built(x, S)
      PROVE  x \in S
  <2>1. ASSUME NEW t \in Storages
        PROVE  Adds(x, t, ConvertConstraint(x, t))
    <3>1. CASE IsSimple(x)
      <4>1. ConvertConstraint(x, t) = [ result |-> x, storage |-> t ]
        BY <3>1, ConvertAll DEF ConvertOf
      <4> QED
        BY <3>1, <4>1, SimpleAdds
    <3>2. CASE ~ IsSimple(x)
      <4> DEFINE n == Len(x.Constraints)
      <4>1. n \in Nat /\ \A i \in 1 .. n : x.Constraints[i] \in S
        BY <1>1, <3>2, Elements
      <4>2. PICK u \in [ 0 .. n -> Storages ] :
              /\ Fills(x, t, Converted, u)
              /\ ConvertConstraint(x, t) = [ result |-> Compound(x, t), storage |-> u[n] ]
        BY <3>2, ConvertSteps
      <4>3. \A i \in 1 .. n : \A v \in Storages :
              Adds(x.Constraints[i], v, ConvertConstraint(x.Constraints[i], v))
        BY <4>1
      <4>4. u[n] \in Storages
        BY <4>1
      <4> HIDE DEF S
      <4>5. Filling(x, t, u[n], n)
        BY <3>2, <4>2, <4>3, FillingAll
      <4>6. Adds(x, t, [ result |-> Compound(x, t), storage |-> u[n] ])
        BY <3>2, <4>4, <4>5, CompoundAdds
      <4> QED
        BY <4>2, <4>6
    <3> QED
      BY <3>1, <3>2
  <2> QED
    BY <2>1
<1>2. S = Constraints
  <2>1. S \in SUBSET Constraints
    OBVIOUS
  <2> HIDE DEF S
  <2> QED
    BY <1>1, <2>1, ConstraintInduction
<1> QED
  BY <1>2

-----------------------------------------------------------------------------
(* What holds.                                                             *)

NodesOf(root, s) == {root} \cup UNION { Range(s[k]) : k \in DOMAIN s }

(* Of a node, when it is known of those its pointer leads to.              *)
HoldsOf(x, h, s, id, entity) ==
  \/ MatchesSimple(x, id, entity)
  \/ x.type = "And" /\ \A i \in 1 .. x.ConstraintCount :
       i \in DOMAIN s[x.Constraint] /\ h[s[x.Constraint][i]]
  \/ x.type = "Or" /\ \E i \in 1 .. x.ConstraintCount :
       i \in DOMAIN s[x.Constraint] /\ h[s[x.Constraint][i]]
  \/ x.type = "Not" /\ ~ (1 \in DOMAIN s[x.Constraint] /\ h[s[x.Constraint][1]])

(* The structures that a conversion results in: the storage has an array   *)
(* for each of the constraints in src, and root stands for c.              *)
Structure(root, s, c, src) ==
  /\ s \in Storages /\ c \in Constraints /\ src \in [ 1 .. Len(s) -> Constraints ]
  /\ Stands(root, c, src)
  /\ \A k \in 1 .. Len(s) : Full(s[k], src[k], src)

LEMMA ConvertedIsStructure ==
  ASSUME NEW c \in Constraints
  PROVE  \E src : Structure(ConvertConstraint(c, << >>).result,
                            ConvertConstraint(c, << >>).storage, c, src)
<1>1. << >> \in Storages /\ Len(<< >>) + 1 = 1
  BY DEF Storages
<1>2. PICK r : r = ConvertConstraint(c, << >>)
  OBVIOUS
<1>3. Adds(c, << >>, r) /\ r \in Results
  BY <1>1, <1>2, ConvertAdds, ConvertAll
<1>4. r.storage \in Storages
  BY <1>3 DEF Results
<1>5. PICK src \in [ 1 .. Len(r.storage) -> Constraints ] :
        /\ Stands(r.result, c, src)
        /\ \A k \in 1 .. Len(r.storage) : Full(r.storage[k], src[k], src)
  BY <1>1, <1>3 DEF Adds
<1>6. Structure(r.result, r.storage, c, src)
  BY <1>4, <1>5 DEF Structure
<1> QED
  BY <1>2, <1>6

(* A node stands for a single constraint.                                  *)
Source(x, src) == IF IsSimple(x) THEN x ELSE src[x.Constraint]

LEMMA SourceIs ==
  ASSUME NEW x, NEW d, NEW src, Stands(x, d, src)
  PROVE  Source(x, src) = d /\ x.type = d.type /\ (IsSimple(x) <=> IsSimple(d))
BY DEF Stands, Source, IsSimple

LEMMA NodesStand ==
  ASSUME NEW root, NEW s, NEW c, NEW src, Structure(root, s, c, src), NEW x \in NodesOf(root, s)
  PROVE  \E d \in Constraints : Stands(x, d, src)
<1>1. CASE x = root
  BY <1>1 DEF Structure
<1>2. ASSUME NEW k \in DOMAIN s, x \in Range(s[k])
      PROVE  \E d \in Constraints : Stands(x, d, src)
  <2>1. k \in 1 .. Len(s)
    BY DEF Structure, Storages
  <2>2. Full(s[k], src[k], src) /\ src[k] \in Constraints
    BY <2>1 DEF Structure
  <2>3. PICK i \in DOMAIN s[k] : x = s[k][i]
    BY <1>2 DEF Range
  <2>4. i \in 1 .. Len(src[k].Constraints) /\ Stands(x, src[k].Constraints[i], src)
    BY <2>2, <2>3 DEF Full
  <2>5. ~ IsSimple(src[k])
    BY <2>2 DEF Full
  <2>6. Built(src[k], Constraints)
    BY <2>2, ConstraintsBuilt
  <2>7. src[k].Constraints[i] \in Constraints
    BY <2>4, <2>5, <2>6, Elements
  <2> QED
    BY <2>4, <2>7
<1> QED
  BY <1>1, <1>2 DEF NodesOf

(* Those a node's pointer leads to stand for what its constraint holds.    *)
LEMMA ElementsStand ==
  ASSUME NEW root, NEW s, NEW c, NEW src, Structure(root, s, c, src),
         NEW x, NEW d \in Constraints, Stands(x, d, src), ~ IsSimple(d)
  PROVE  /\ x.ConstraintCount = Len(d.Constraints)
         /\ DOMAIN s[x.Constraint] = 1 .. Len(d.Constraints)
         /\ \A i \in 1 .. Len(d.Constraints) :
              /\ s[x.Constraint][i] \in NodesOf(root, s)
              /\ Stands(s[x.Constraint][i], d.Constraints[i], src)
<1> DEFINE k == x.Constraint
<1>1. k \in 1 .. Len(s) /\ src[k] = d /\ x.ConstraintCount = Len(d.Constraints)
  BY DEF Stands, Structure
<1> HIDE DEF k
<1>2. Full(s[k], d, src)
  BY <1>1 DEF Structure
<1>3. /\ DOMAIN s[k] = 1 .. Len(d.Constraints)
      /\ \A i \in 1 .. Len(d.Constraints) : Stands(s[k][i], d.Constraints[i], src)
  BY <1>2 DEF Full
<1>4. k \in DOMAIN s
  BY <1>1 DEF Structure, Storages
<1>5. \A i \in DOMAIN s[k] : s[k][i] \in Range(s[k])
  BY DEF Range
<1>6. \A i \in DOMAIN s[k] : s[k][i] \in NodesOf(root, s)
  BY <1>4, <1>5 DEF NodesOf
<1> QED
  BY <1>1, <1>3, <1>6 DEF k

(* If h is right of those, so is what follows for the node.                *)
LEMMA HoldsNode ==
  ASSUME NEW root, NEW s, NEW c, NEW src, Structure(root, s, c, src), NEW id, NEW entity,
         NEW x, NEW d \in Constraints, Stands(x, d, src), NEW h,
         ~ IsSimple(d) =>
           \A i \in 1 .. Len(d.Constraints) :
             h[s[x.Constraint][i]] = Matches(d.Constraints[i], id, entity)
  PROVE  HoldsOf(x, h, s, id, entity) = Matches(d, id, entity)
<1> DEFINE m == [ y \in Constraints |-> Matches(y, id, entity) ]
<1>1. Matches(d, id, entity) = MatchesOf(d, m, id, entity)
  BY MatchesAll
<1>2. CASE IsSimple(d)
  <2>1. x = d /\ d.type \notin { "And", "Or", "Not" }
    BY <1>2 DEF Stands, IsSimple
  <2>2. HoldsOf(d, h, s, id, entity) = MatchesOf(d, m, id, entity)
    BY <2>1 DEF HoldsOf, MatchesOf
  <2> QED
    BY <1>1, <2>1, <2>2
<1>3. CASE ~ IsSimple(d)
  <2> DEFINE n == Len(d.Constraints)
             a == s[x.Constraint]
  <2>1. Built(d, Constraints)
    BY ConstraintsBuilt
  <2>2. /\ n \in Nat /\ DOMAIN d.Constraints = 1 .. n
        /\ \A i \in 1 .. n : d.Constraints[i] \in Constraints
        /\ d.type = "Not" => n = 1
    BY <1>3, <2>1, Elements
  <2>3. x.ConstraintCount = n /\ DOMAIN a = 1 .. n
    BY <1>3, ElementsStand
  <2>4. x.type = d.type /\ ~ IsSimple(x)
    BY <1>3, SourceIs
  <2>5. ~ MatchesSimple(x, id, entity) /\ ~ MatchesSimple(d, id, entity)
    BY <1>3, <2>4, SimpleOnly
  <2>6. \A i \in 1 .. n : h[a[i]] = m[d.Constraints[i]]
    BY <1>3, <2>2
  <2> HIDE DEF m, n, a
  <2>7. HoldsOf(x, h, s, id, entity) <=>
          \/ d.type = "And" /\ \A i \in 1 .. n : h[a[i]]
          \/ d.type = "Or" /\ \E i \in 1 .. n : h[a[i]]
          \/ d.type = "Not" /\ ~h[a[1]]
    <3>1. d.type = "Not" => 1 \in 1 .. n
      BY <2>2
    <3> QED
      BY <2>3, <2>4, <2>5, <3>1 DEF HoldsOf, a
  <2>8. MatchesOf(d, m, id, entity) <=>
          \/ d.type = "And" /\ \A i \in 1 .. n : m[d.Constraints[i]]
          \/ d.type = "Or" /\ \E i \in 1 .. n : m[d.Constraints[i]]
          \/ d.type = "Not" /\ ~m[d.Constraints[1]]
    BY <2>2, <2>5 DEF MatchesOf
  <2>9. HoldsOf(x, h, s, id, entity) <=> MatchesOf(d, m, id, entity)
    <3>1. d.type = "Not" => 1 \in 1 .. n
      BY <2>2
    <3> QED
      BY <2>6, <2>7, <2>8, <3>1
  <2>10. HoldsOf(x, h, s, id, entity) = MatchesOf(d, m, id, entity)
    BY <2>9 DEF HoldsOf, MatchesOf
  <2> QED
    BY <1>1, <2>10 DEF m
<1> QED
  BY <1>2, <1>3

(* The C structure holds of an entity when the constraint that it stands   *)
(* for matches it.                                                         *)
LEMMA HoldsMatches ==
  ASSUME NEW root, NEW s, NEW c, NEW src, Structure(root, s, c, src), NEW id, NEW entity
  PROVE  Holds(root, s, id, entity) = Matches(c, id, entity)
<1> DEFINE nodes == NodesOf(root, s)
           Body(h) ==
             [ x \in nodes |->
                 \/ MatchesSimple(x, id, entity)
                 \/ x.type = "And" /\ \A i \in 1 .. x.ConstraintCount :
                      i \in DOMAIN s[x.Constraint] /\ h[s[x.Constraint][i]]
                 \/ x.type = "Or" /\ \E i \in 1 .. x.ConstraintCount :
                      i \in DOMAIN s[x.Constraint] /\ h[s[x.Constraint][i]]
                 \/ x.type = "Not" /\ ~ (1 \in DOMAIN s[x.Constraint] /\ h[s[x.Constraint][1]]) ]
           f == CHOOSE h : h = Body(h)
           g == [ x \in nodes |-> Matches(Source(x, src), id, entity) ]
<1>1. Holds(root, s, id, entity) = f[root]
  BY DEF Holds, NodesOf
<1>2. \A h : Body(h) = [ x \in nodes |-> HoldsOf(x, h, s, id, entity) ]
  BY DEF HoldsOf
<1> HIDE DEF Body, nodes
<1>3. ASSUME NEW x \in nodes
      PROVE  HoldsOf(x, g, s, id, entity) = g[x]
  <2>1. PICK d \in Constraints : Stands(x, d, src)
    BY NodesStand DEF nodes
  <2>2. g[x] = Matches(d, id, entity)
    BY <2>1, SourceIs
  <2>3. ASSUME ~ IsSimple(d), NEW i \in 1 .. Len(d.Constraints)
        PROVE  g[s[x.Constraint][i]] = Matches(d.Constraints[i], id, entity)
    <3>1. s[x.Constraint][i] \in nodes /\ Stands(s[x.Constraint][i], d.Constraints[i], src)
      BY <2>1, <2>3, ElementsStand DEF nodes
    <3>2. Source(s[x.Constraint][i], src) = d.Constraints[i]
      BY <3>1, SourceIs
    <3> QED
      BY <3>1, <3>2
  <2> HIDE DEF g
  <2>4. HoldsOf(x, g, s, id, entity) = Matches(d, id, entity)
    BY <2>1, <2>3, HoldsNode
  <2> QED
    BY <2>2, <2>4
<1>4. g = Body(g)
  <2>1. g = [ x \in nodes |-> g[x] ]
    OBVIOUS
  <2> HIDE DEF g
  <2> QED
    BY <1>2, <1>3, <2>1
<1>5. f = Body(f)
  <2> HIDE DEF g
  <2> QED
    BY <1>4, Zenon
<1> HIDE DEF f
<1>6. \A x \in nodes : f[x] = HoldsOf(x, f, s, id, entity)
  <2> PICK h : h = f
    OBVIOUS
  <2>1. h = [ x \in nodes |-> HoldsOf(x, h, s, id, entity) ]
    BY <1>2, <1>5, Zenon
  <2>2. \A x \in nodes : h[x] = HoldsOf(x, h, s, id, entity)
    BY <2>1
  <2> QED
    BY <2>2, Zenon
<1> DEFINE S == { d \in Constraints : \A x \in nodes :
                    Stands(x, d, src) => f[x] = Matches(d, id, entity) }
<1>7. ASSUME NEW d \in Constraints, Built(d, S)
      PROVE  d \in S
  <2>1. ASSUME NEW x \in nodes, Stands(x, d, src)
        PROVE  f[x] = Matches(d, id, entity)
    <3>1. ASSUME ~ IsSimple(d), NEW i \in 1 .. Len(d.Constraints)
          PROVE  f[s[x.Constraint][i]] = Matches(d.Constraints[i], id, entity)
      <4>1. s[x.Constraint][i] \in nodes /\ Stands(s[x.Constraint][i], d.Constraints[i], src)
        BY <2>1, <3>1, ElementsStand DEF nodes
      <4>2. d.Constraints[i] \in S
        BY <1>7, <3>1, Elements
      <4> QED
        BY <4>1, <4>2
    <3>2. HoldsOf(x, f, s, id, entity) = Matches(d, id, entity)
      BY <2>1, <3>1, HoldsNode
    <3> QED
      BY <1>6, <3>2
  <2> QED
    BY <2>1
<1>8. S = Constraints
  <2>1. S \in SUBSET Constraints
    OBVIOUS
  <2> HIDE DEF S
  <2> QED
    BY <1>7, <2>1, ConstraintInduction
<1>9. root \in nodes /\ Stands(root, c, src) /\ c \in Constraints
  BY DEF nodes, NodesOf, Structure
<1>10. c \in S
  BY <1>8, <1>9
<1>11. f[root] = Matches(c, id, entity)
  BY <1>9, <1>10
<1> QED
  BY <1>1, <1>11

-----------------------------------------------------------------------------
(* What queries find.                                                      *)

QueryOK(query) ==
  /\ query.Constraint \in Constraints
  /\ query.ResultType = "count" \/ query.ResultType = << >> \/ query.ResultType[1] # Null

Found(query, w) == { id \in DOMAIN w : Matches(query.Constraint, id, w[id]) }

Wanted(query) ==
  IF query.ResultType = << >> THEN Registry ELSE Registry \cap ToSet(query.ResultType[1])

LEMMA DescribedIs ==
  ASSUME NEW query, NEW w
  PROVE  /\ Described(query, w).ResultCount = Cardinality(Found(query, w))
         /\ query.ResultType = "count" => Described(query, w).Result = << >>
         /\ query.ResultType # "count" =>
              Described(query, w).Result
                = [ id \in Found(query, w) |->
                      Restrict(w[id], DOMAIN w[id] \cap Wanted(query)) ]
<1> DEFINE found == Found(query, w)
           result == IF query.ResultType = "count" THEN << >>
                     ELSE [ id \in found |-> Restrict(w[id], DOMAIN w[id] \cap Wanted(query)) ]
<1>1. Described(query, w) = [ ResultCount |-> Cardinality(found), Result |-> result ]
  BY DEF Described, Found, Wanted
<1> HIDE DEF found
<1>2. PICK r : r = result
  OBVIOUS
<1>3. [ ResultCount |-> Cardinality(found), Result |-> r ].Result = r
  OBVIOUS
<1>4. [ ResultCount |-> Cardinality(found), Result |-> r ].ResultCount = Cardinality(found)
  OBVIOUS
<1> HIDE DEF result
<1>5. Described(query, w).Result = result /\ Described(query, w).ResultCount = Cardinality(found)
  BY <1>1, <1>2, <1>3, <1>4, Zenon
<1> QED
  BY <1>5 DEF result, found

LEMMA DescribedRecord ==
  ASSUME NEW query, NEW w
  PROVE  Described(query, w) = [ ResultCount |-> Described(query, w).ResultCount,
                                 Result |-> Described(query, w).Result ]
<1> DEFINE result == IF query.ResultType = "count" THEN << >>
                     ELSE [ id \in Found(query, w) |->
                              Restrict(w[id], DOMAIN w[id] \cap Wanted(query)) ]
<1>1. Described(query, w) = [ ResultCount |-> Cardinality(Found(query, w)), Result |-> result ]
  BY DEF Described, Found, Wanted
<1> HIDE DEF result
<1>2. PICK count, value :
        Described(query, w) = [ ResultCount |-> count, Result |-> value ]
  BY <1>1
<1>3. PICK d : d = [ ResultCount |-> count, Result |-> value ]
  OBVIOUS
<1>4. d.ResultCount = count /\ d.Result = value
  BY <1>3
<1>5. d = [ ResultCount |-> d.ResultCount, Result |-> d.Result ]
  BY <1>3, <1>4, Zenon
<1> QED
  BY <1>2, <1>3, <1>5, Zenon

(* What SpatialOS puts in an answer.                                       *)
AskedOf(query, entity) ==
  IF query.ResultType = << >> THEN entity
  ELSE Restrict(entity, DOMAIN entity \cap ToSet(query.ResultType[1]))

Item(query, w, id) == [ EntityId |-> id, Component |-> AskedOf(query, w[id]) ]

LEMMA ProtocolIs ==
  ASSUME NEW query
  PROVE  LET p == ProtocolQuery(query)
             ids == query.ResultType
         IN  /\ p.Constraint = ConvertConstraint(query.Constraint, << >>).result
             /\ p.storage = ConvertConstraint(query.Constraint, << >>).storage
             /\ p.ResultType = IF ids = "count" THEN "count" ELSE "snapshot"
             /\ p.SnapshotResultTypeComponentId
                  = IF ids = "count" \/ ids = << >> THEN Null ELSE ids[1]
BY DEF ProtocolQuery

(* The C structure of a query, followed through its pointers, holds of the *)
(* entities that its constraint matches and of no other, however the       *)
(* constraint nests: every array that ConvertConstraint allocates is       *)
(* filled, and is the one its address was noted for.                       *)
THEOREM ProtocolHolds ==
  ASSUME NEW query, QueryOK(query), NEW id, NEW entity
  PROVE  Holds(ProtocolQuery(query).Constraint, ProtocolQuery(query).storage, id, entity)
           = Matches(query.Constraint, id, entity)
<1> DEFINE c == query.Constraint
           r == ConvertConstraint(c, << >>)
<1>1. c \in Constraints
  BY DEF QueryOK
<1>2. PICK src : Structure(r.result, r.storage, c, src)
  BY <1>1, ConvertedIsStructure
<1>3. Holds(r.result, r.storage, id, entity) = Matches(c, id, entity)
  BY <1>2, HoldsMatches
<1>4. ProtocolQuery(query).Constraint = r.result /\ ProtocolQuery(query).storage = r.storage
  BY ProtocolIs
<1> QED
  BY <1>3, <1>4

LEMMA AnswerIs ==
  ASSUME NEW query, QueryOK(query), NEW w
  PROVE  /\ Answer(ProtocolQuery(query), w).ResultCount = Cardinality(Found(query, w))
         /\ query.ResultType = "count" => Answer(ProtocolQuery(query), w).Result = << >>
         /\ query.ResultType # "count" =>
              Answer(ProtocolQuery(query), w).Result
                = << [ i \in 1 .. Cardinality(Found(query, w)) |->
                         Item(query, w, SetToSeq(Found(query, w))[i]) ] >>
<1> DEFINE p == ProtocolQuery(query)
           found == Found(query, w)
           ids == query.ResultType
           Asked(entity) ==
             IF p.SnapshotResultTypeComponentId = Null THEN entity
             ELSE Restrict(entity, DOMAIN entity \cap ToSet(p.SnapshotResultTypeComponentId))
           list == [ i \in 1 .. Cardinality(found) |->
                       [ EntityId |-> SetToSeq(found)[i],
                         Component |-> Asked(w[SetToSeq(found)[i]]) ] ]
           result == IF p.ResultType = "count" THEN << >> ELSE << list >>
<1>1. found = { id \in DOMAIN w : Holds(p.Constraint, p.storage, id, w[id]) }
  BY ProtocolHolds DEF Found
<1>2. Answer(p, w) = [ ResultCount |-> Cardinality(found), Result |-> result ]
  BY <1>1 DEF Answer
<1>3. p.ResultType = "count" <=> ids = "count"
  BY ProtocolIs
<1>4. ASSUME ids # "count", NEW entity
      PROVE  Asked(entity) = AskedOf(query, entity)
  <2>1. p.SnapshotResultTypeComponentId = IF ids = << >> THEN Null ELSE ids[1]
    BY <1>4, ProtocolIs
  <2>2. ids = << >> \/ ids[1] # Null
    BY <1>4 DEF QueryOK
  <2> QED
    BY <2>1, <2>2 DEF AskedOf
<1> HIDE DEF p, found, Asked
<1>5. ids # "count" =>
        list = [ i \in 1 .. Cardinality(found) |-> Item(query, w, SetToSeq(found)[i]) ]
  BY <1>4 DEF Item
<1> HIDE DEF list
<1>6. PICK r : r = result
  OBVIOUS
<1>7. [ ResultCount |-> Cardinality(found), Result |-> r ].Result = r
  OBVIOUS
<1>8. [ ResultCount |-> Cardinality(found), Result |-> r ].ResultCount = Cardinality(found)
  OBVIOUS
<1> HIDE DEF result
<1>9. Answer(p, w).Result = result /\ Answer(p, w).ResultCount = Cardinality(found)
  BY <1>2, <1>6, <1>7, <1>8, Zenon
<1> QED
  BY <1>3, <1>5, <1>9 DEF result, found, p

LEMMA SetListed ==
  ASSUME NEW S, IsFiniteSet(S)
  PROVE  ToSet(SetToSeq(S)) = S /\ DOMAIN SetToSeq(S) = 1 .. Cardinality(S)
<1> DEFINE n == Cardinality(S)
           Lists == [ 1 .. n -> S ]
<1>1. n \in Nat /\ ExistsBijection(1 .. n, S)
  BY FS_CardinalityType
<1>2. \E f \in Lists : IsInjective(f)
  BY <1>1 DEF ExistsBijection, Bijection, Injection
<1>3. SetToSeq(S) \in Lists /\ IsInjective(SetToSeq(S))
  BY <1>2 DEF SetToSeq
<1>4. PICK f : f = SetToSeq(S)
  OBVIOUS
<1>5. f \in Injection(1 .. n, S)
  BY <1>3, <1>4 DEF Injection
<1>6. IsFiniteSet(1 .. n) /\ Cardinality(1 .. n) = n
  BY <1>1, FS_Interval
<1>7. f \in Surjection(1 .. n, S)
  BY <1>5, <1>6, FS_Injection
<1>8. DOMAIN f = 1 .. n
  BY <1>3, <1>4
<1>9. ToSet(f) = S
  BY <1>7, <1>8 DEF ToSet, Surjection
<1> QED
  BY <1>4, <1>8, <1>9

(* The worker is told what it described: the conversion, the answer and    *)
(* its handler together.                                                   *)
THEOREM AnswerDescribes ==
  ASSUME NEW query, QueryOK(query), NEW w, IsFiniteSet(DOMAIN w)
  PROVE  /\ Answer(ProtocolQuery(query), w).ResultCount = Described(query, w).ResultCount
         /\ ResultOf(Answer(ProtocolQuery(query), w)) = Described(query, w).Result
<1> DEFINE a == Answer(ProtocolQuery(query), w)
           found == Found(query, w)
<1>1. a.ResultCount = Described(query, w).ResultCount
  <2>1. a.ResultCount = Cardinality(Found(query, w))
    BY AnswerIs, Zenon
  <2>2. Described(query, w).ResultCount = Cardinality(Found(query, w))
    BY DescribedIs, Zenon
  <2> QED
    BY <2>1, <2>2, Zenon
<1>2. CASE query.ResultType = "count"
  <2>1. a.Result = << >>
    BY <1>2, AnswerIs
  <2> QED
    BY <1>1, <1>2, <2>1, DescribedIs DEF ResultOf
<1>3. CASE query.ResultType # "count"
  <2> DEFINE n == Cardinality(found)
             q == SetToSeq(found)
             list == [ i \in 1 .. n |-> Item(query, w, q[i]) ]
             entities == ToSet(list)
             At(id) == CHOOSE e \in entities : e.EntityId = id
  <2>1. a.Result = << list >>
    BY <1>3, AnswerIs
  <2>2. IsFiniteSet(found)
    <3>1. found \in SUBSET DOMAIN w
      BY DEF Found
    <3> QED
      BY <3>1, FS_Subset
  <2>3. ToSet(q) = found /\ DOMAIN q = 1 .. n
    BY <2>2, SetListed
  <2>4. entities = { Item(query, w, id) : id \in found }
    BY <2>3 DEF ToSet
  <2>5. << list >> # << >> /\ << list >>[1] = list
    OBVIOUS
  <2>6. ResultOf(a) = [ id \in { e.EntityId : e \in entities } |->
                          Restrict(At(id).Component, DOMAIN At(id).Component \cap Registry) ]
    BY <2>1, <2>5 DEF ResultOf
  <2>7. \A id : Item(query, w, id).EntityId = id
                /\ Item(query, w, id).Component = AskedOf(query, w[id])
    BY DEF Item
  <2> HIDE DEF entities
  <2>8. { e.EntityId : e \in entities } = found
    BY <2>4, <2>7
  <2>9. \A id \in found : At(id) = Item(query, w, id)
    BY <2>4, <2>7
  <2> HIDE DEF At, found
  <2>10. ASSUME NEW id \in found
         PROVE  Restrict(At(id).Component, DOMAIN At(id).Component \cap Registry)
                  = Restrict(w[id], DOMAIN w[id] \cap Wanted(query))
    <3> PICK entity : entity = w[id]
      OBVIOUS
    <3>1. At(id).Component = AskedOf(query, entity)
      BY <2>7, <2>9
    <3>2. CASE query.ResultType = << >>
      BY <3>1, <3>2 DEF AskedOf, Wanted
    <3>3. CASE query.ResultType # << >>
      <4> DEFINE ids == ToSet(query.ResultType[1])
                 component == Restrict(entity, DOMAIN entity \cap ids)
      <4>1. AskedOf(query, entity) = component /\ Wanted(query) = Registry \cap ids
        BY <3>3 DEF AskedOf, Wanted
      <4> HIDE DEF ids
      <4>2. /\ DOMAIN component = DOMAIN entity \cap ids
            /\ \A x \in DOMAIN component : component[x] = entity[x]
        BY DEF Restrict
      <4> HIDE DEF component
      <4>3. DOMAIN component \cap Registry = DOMAIN entity \cap (Registry \cap ids)
        BY <4>2
      <4>4. Restrict(component, DOMAIN component \cap Registry)
              = Restrict(entity, DOMAIN entity \cap (Registry \cap ids))
        BY <4>2, <4>3 DEF Restrict
      <4> QED
        BY <3>1, <4>1, <4>4
    <3> QED
      BY <3>2, <3>3
  <2>11. ResultOf(a) = [ id \in found |-> Restrict(w[id], DOMAIN w[id] \cap Wanted(query)) ]
    BY <2>6, <2>8, <2>10
  <2> QED
    BY <1>1, <1>3, <2>11, DescribedIs DEF found
<1> QED
  BY <1>2, <1>3

(* Of a part of the world, a part of it is described.                      *)
LEMMA DescribedSome ==
  ASSUME NEW query, NEW w, IsFiniteSet(DOMAIN w), NEW S \in SUBSET DOMAIN w
  PROVE  LET part == Described(query, Restrict(w, S))
             all == Described(query, w)
         IN  /\ part.ResultCount <= all.ResultCount /\ all.ResultCount \in Nat
             /\ DOMAIN part.Result \subseteq DOMAIN all.Result
             /\ \A id \in DOMAIN part.Result : part.Result[id] = all.Result[id]
<1> DEFINE v == Restrict(w, S)
           part == Described(query, v)
           all == Described(query, w)
<1>1. DOMAIN v = S /\ \A id \in S : v[id] = w[id]
  BY DEF Restrict
<1> HIDE DEF v
<1>2. Found(query, v) \in SUBSET Found(query, w) /\ Found(query, v) \subseteq S
  BY <1>1 DEF Found
<1>3. IsFiniteSet(Found(query, w))
  <2>1. Found(query, w) \in SUBSET DOMAIN w
    BY DEF Found
  <2> QED
    BY <2>1, FS_Subset
<1>4. /\ Cardinality(Found(query, v)) <= Cardinality(Found(query, w))
      /\ Cardinality(Found(query, w)) \in Nat
  BY <1>2, <1>3, FS_Subset, FS_CardinalityType
<1>5. part.ResultCount <= all.ResultCount /\ all.ResultCount \in Nat
  BY <1>4, DescribedIs
<1>6. CASE query.ResultType = "count"
  BY <1>5, <1>6, DescribedIs DEF v
<1>7. CASE query.ResultType # "count"
  <2>1. PICK f : f = part.Result
    OBVIOUS
  <2>2. PICK g : g = all.Result
    OBVIOUS
  <2>3. /\ f = [ id \in Found(query, v) |-> Restrict(v[id], DOMAIN v[id] \cap Wanted(query)) ]
        /\ g = [ id \in Found(query, w) |-> Restrict(w[id], DOMAIN w[id] \cap Wanted(query)) ]
    BY <1>7, <2>1, <2>2, DescribedIs
  <2>4. DOMAIN f \subseteq DOMAIN g /\ \A id \in DOMAIN f : f[id] = g[id]
    BY <1>1, <1>2, <2>3
  <2> QED
    BY <1>5, <2>1, <2>2, <2>4 DEF v
<1> QED
  BY <1>6, <1>7

-----------------------------------------------------------------------------
(* What is heard of queries.                                               *)

(* What an operation, or a callback, tells of a query, with the result     *)
(* that the handler makes of it.                                           *)
NothingFound(e, result) == e.StatusCode # "kSuccess" /\ e.ResultCount = 0 /\ result = << >>

Tells(e, result, waiting, carried, did) ==
  /\ IF e.StatusCode = "kSuccess"
     THEN carried /\ did = [ ResultCount |-> e.ResultCount, Result |-> result ]
     ELSE carried =>
            /\ e.ResultCount <= did.ResultCount
            /\ DOMAIN result \subseteq DOMAIN did.Result
            /\ \A id \in DOMAIN result : result[id] = did.Result[id]
  /\ waiting => NothingFound(e, result)

IsQuery(q) == q.kind = "EntityQuery"

(* A query that may still be carried out was, if anything, given up.       *)
QueriesOK ==
  /\ IsFiniteSet(DOMAIN world)
  /\ \A r \in DOMAIN asked : IsQuery(asked[r]) =>
       /\ QueryOK(asked[r].query) /\ asked[r].protocol = ProtocolQuery(asked[r].query)
       /\ r \in DOMAIN done => done[r].ResultCount \in Nat
  /\ \A i \in DOMAIN ops : IsQuery(asked[ops[i].RequestId]) =>
       Tells(ops[i], ResultOf(ops[i]), ops[i].RequestId \in network,
             ops[i].RequestId \in DOMAIN done, done[ops[i].RequestId])
  /\ \A r \in DOMAIN heard : heard[r] # << >> /\ IsQuery(asked[r]) =>
       Tells(heard[r][1], heard[r][1].Result, r \in network, r \in DOMAIN done, done[r])

LEMMA NothingTells ==
  ASSUME NEW e, NEW result, NothingFound(e, result), NEW waiting, NEW carried, NEW did,
         carried => did.ResultCount \in Nat
  PROVE  Tells(e, result, waiting, carried, did)
<1>1. DOMAIN << >> = {}
  OBVIOUS
<1>2. carried => e.ResultCount <= did.ResultCount
  BY DEF NothingFound
<1> QED
  BY <1>1, <1>2 DEF Tells, NothingFound

LEMMA QueriesInit ==
  RequestInit => QueriesOK
<1> SUFFICES ASSUME RequestInit
             PROVE  QueriesOK
  OBVIOUS
<1>1. DOMAIN << >> = {}
  OBVIOUS
<1>2. IsFiniteSet(DOMAIN world)
  BY WorldAssumption DEF RequestInit
<1> QED
  BY <1>1, <1>2 DEF RequestInit, QueriesOK

(* What is sent.                                                           *)
LEMMA SendQueries ==
  ASSUME RequestOK, QueriesOK, NEW q, SendRequest(q),
         q.kind = "EntityQuery" => QueryOK(q.query) /\ q.protocol = ProtocolQuery(q.query)
  PROVE  QueriesOK'
<1> DEFINE n == Len(asked)
<1>1. /\ asked' = Append(asked, q) /\ heard' = Append(heard, << >>)
      /\ network' = network \cup {Len(asked')}
      /\ UNCHANGED << world, reserved, nextId, ops, done >>
  BY DEF SendRequest
<1>2. /\ n \in Nat /\ Len(asked') = n + 1 /\ asked'[n + 1] = q
      /\ \A i \in 1 .. n : asked'[i] = asked[i]
  BY <1>1, Appended DEF RequestOK
<1>3. /\ Len(heard) = n /\ Len(heard') = n + 1 /\ heard'[n + 1] = << >>
      /\ \A i \in 1 .. n : heard'[i] = heard[i]
  BY <1>1, Appended DEF RequestOK
<1>4. /\ DOMAIN asked = 1 .. n /\ DOMAIN heard = 1 .. n
      /\ DOMAIN asked' = 1 .. n + 1 /\ DOMAIN heard' = 1 .. n + 1
  <2>1. Listed(asked') /\ Listed(heard')
    BY <1>1, Appended DEF RequestOK
  <2> QED
    BY <1>2, <1>3, <2>1, ListFacts DEF RequestOK
<1> HIDE DEF n
<1>5. \A i \in 1 .. n + 1 : i \in 1 .. n \/ i = n + 1
  BY <1>2
<1>6. \A i \in 1 .. n : i # n + 1
  BY <1>2
<1>7. network' = network \cup {n + 1}
  BY <1>1, <1>2
<1>8. \A r \in 1 .. n : r \in network' <=> r \in network
  BY <1>6, <1>7
<1>9. \A r \in 1 .. n : IsQuery(asked'[r]) <=> IsQuery(asked[r])
  BY <1>2 DEF IsQuery
<1>10. n + 1 \notin DOMAIN done
  BY <1>4, <1>6 DEF RequestOK
<1>11. ASSUME NEW r \in DOMAIN asked', IsQuery(asked'[r])
       PROVE  /\ QueryOK(asked'[r].query) /\ asked'[r].protocol = ProtocolQuery(asked'[r].query)
              /\ r \in DOMAIN done' => done'[r].ResultCount \in Nat
  <2>1. CASE r \in 1 .. n
    BY <1>1, <1>2, <1>4, <1>9, <1>11, <2>1 DEF QueriesOK
  <2>2. CASE r = n + 1
    BY <1>1, <1>2, <1>10, <1>11, <2>2 DEF IsQuery
  <2> QED
    BY <1>4, <1>5, <2>1, <2>2
<1>12. ASSUME NEW i \in DOMAIN ops', IsQuery(asked'[ops'[i].RequestId])
       PROVE  Tells(ops'[i], ResultOf(ops'[i]), ops'[i].RequestId \in network',
                    ops'[i].RequestId \in DOMAIN done', done'[ops'[i].RequestId])
  <2>1. PICK r : r = ops[i].RequestId
    OBVIOUS
  <2>2. r \in 1 .. n
    BY <1>1, <1>4, <2>1 DEF RequestOK, OnItsWay
  <2>3. IsQuery(asked[r])
    BY <1>1, <1>9, <1>12, <2>1, <2>2 DEF IsQuery
  <2>4. Tells(ops[i], ResultOf(ops[i]), r \in network, r \in DOMAIN done, done[r])
    BY <1>1, <2>1, <2>3 DEF QueriesOK
  <2>5. (r \in network') = (r \in network)
    BY <1>8, <2>2
  <2> QED
    BY <1>1, <2>1, <2>4, <2>5
<1>13. ASSUME NEW r \in DOMAIN heard', heard'[r] # << >>, IsQuery(asked'[r])
       PROVE  Tells(heard'[r][1], heard'[r][1].Result, r \in network',
                    r \in DOMAIN done', done'[r])
  <2>1. r \in 1 .. n /\ heard'[r] = heard[r]
    BY <1>3, <1>4, <1>5, <1>13
  <2>2. Tells(heard[r][1], heard[r][1].Result, r \in network, r \in DOMAIN done, done[r])
    BY <1>4, <1>9, <1>13, <2>1 DEF QueriesOK
  <2>3. (r \in network') = (r \in network)
    BY <1>8, <2>1
  <2> QED
    BY <1>1, <2>1, <2>2, <2>3
<1>14. IsFiniteSet(DOMAIN world')
  BY <1>1 DEF QueriesOK
<1> QED
  BY <1>11, <1>12, <1>13, <1>14 DEF QueriesOK

(* What is heard.                                                          *)
LEMMA ProcessQueries ==
  ASSUME RequestOK, QueriesOK, ProcessAnswer
  PROVE  QueriesOK'
<1> DEFINE op == Head(ops)
           r == op.RequestId
<1>1. /\ ops # << >> /\ ops' = Tail(ops)
      /\ heard' = [ heard EXCEPT ![r] = Append(heard[r], HandleResponse(op)) ]
      /\ UNCHANGED << world, reserved, nextId, asked, network, outstanding, done >>
  BY DEF ProcessAnswer
<1>2. /\ Len(ops) \in Nat /\ Len(ops) >= 1
      /\ op = ops[1] /\ DOMAIN ops = 1 .. Len(ops) /\ DOMAIN ops' = 1 .. Len(ops) - 1
      /\ \A i \in 1 .. Len(ops) - 1 : ops'[i] = ops[i + 1]
  BY <1>1, TailListed, ListFacts DEF RequestOK
<1>3. OnItsWay(op) /\ 1 \in DOMAIN ops
  BY <1>2 DEF RequestOK
<1>4. r \in DOMAIN asked /\ heard[r] = << >> /\ op.kind = asked[r].kind
  BY <1>3 DEF OnItsWay, Meant
<1>5. DOMAIN heard = DOMAIN asked
  BY ListFacts DEF RequestOK
<1>6. IsQuery(asked[r]) => Tells(op, ResultOf(op), r \in network, r \in DOMAIN done, done[r])
  BY <1>2, <1>3 DEF QueriesOK
<1>7. Append(<< >>, HandleResponse(op)) = << HandleResponse(op) >>
  OBVIOUS
<1>8. IsQuery(asked[r]) => /\ HandleResponse(op).StatusCode = op.StatusCode
                    /\ HandleResponse(op).ResultCount = op.ResultCount
                    /\ HandleResponse(op).Result = ResultOf(op)
  BY <1>4 DEF HandleResponse, IsQuery
<1> HIDE DEF op, r
<1>9. /\ DOMAIN heard' = DOMAIN heard /\ heard'[r] = << HandleResponse(op) >>
      /\ \A i \in DOMAIN heard : i # r => heard'[i] = heard[i]
  BY <1>1, <1>4, <1>5, <1>7
<1>10. \A i \in DOMAIN ops' : i + 1 \in DOMAIN ops /\ ops'[i] = ops[i + 1]
  BY <1>2
<1>11. ASSUME NEW i \in DOMAIN ops', IsQuery(asked'[ops'[i].RequestId])
       PROVE  Tells(ops'[i], ResultOf(ops'[i]), ops'[i].RequestId \in network',
                    ops'[i].RequestId \in DOMAIN done', done'[ops'[i].RequestId])
  <2>1. IsQuery(asked[ops[i + 1].RequestId])
    BY <1>1, <1>10, <1>11 DEF IsQuery
  <2> QED
    BY <1>1, <1>10, <2>1 DEF QueriesOK
<1>12. ASSUME NEW x \in DOMAIN heard', heard'[x] # << >>, IsQuery(asked'[x])
       PROVE  Tells(heard'[x][1], heard'[x][1].Result, x \in network',
                    x \in DOMAIN done', done'[x])
  <2>1. IsQuery(asked[x])
    BY <1>1, <1>12 DEF IsQuery
  <2>2. CASE x = r
    <3>1. PICK h : h = HandleResponse(op)
      OBVIOUS
    <3>2. heard'[x][1] = h
      BY <1>9, <2>2, <3>1
    <3>3. h.StatusCode = op.StatusCode /\ h.ResultCount = op.ResultCount /\ h.Result = ResultOf(op)
      BY <1>8, <2>1, <2>2, <3>1
    <3>4. Tells(h, h.Result, r \in network, r \in DOMAIN done, done[r])
      BY <1>6, <2>1, <2>2, <3>3 DEF Tells, NothingFound
    <3> QED
      BY <1>1, <2>2, <3>2, <3>4
  <2>3. CASE x # r
    BY <1>1, <1>9, <1>12, <2>1, <2>3 DEF QueriesOK
  <2> QED
    BY <2>2, <2>3
<1>13. /\ IsFiniteSet(DOMAIN world')
       /\ \A x \in DOMAIN asked' : IsQuery(asked'[x]) =>
            /\ QueryOK(asked'[x].query) /\ asked'[x].protocol = ProtocolQuery(asked'[x].query)
            /\ x \in DOMAIN done' => done'[x].ResultCount \in Nat
  BY <1>1 DEF QueriesOK, IsQuery
<1> QED
  BY <1>11, <1>12, <1>13 DEF QueriesOK

(* What SpatialOS does.                                                    *)

(* A request is carried out or not, and the answer to it is on its way or  *)
(* not.                                                                    *)
LEMMA AnswerQueries ==
  ASSUME RequestOK, QueriesOK, NEW r \in DOMAIN asked, NEW op, op.RequestId = r,
         UNCHANGED << asked, heard >>, network' \subseteq network, IsFiniteSet(DOMAIN world'),
         \/ done' = done
         \/ /\ r \in network
            /\ \E v : /\ done' = With(done, r, v)
                      /\ IsQuery(asked[r]) => v.ResultCount \in Nat,
         \/ UNCHANGED ops
         \/ /\ ops' = Append(ops, op)
            /\ IsQuery(asked[r]) => Tells(op, ResultOf(op), r \in network',
                                   r \in DOMAIN done', done'[r])
  PROVE  QueriesOK'
<1>1. \A x : IsQuery(asked'[x]) <=> IsQuery(asked[x])
  OBVIOUS
<1>2. \A x : x # r => ((x \in DOMAIN done') = (x \in DOMAIN done)) /\
                      (x \in DOMAIN done => done'[x] = done[x])
  BY DEF With
<1>3. IsQuery(asked[r]) /\ r \in DOMAIN done' => done'[r].ResultCount \in Nat
  BY DEF With, QueriesOK
<1>4. ASSUME NEW x \in DOMAIN asked, NEW e, NEW result, IsQuery(asked[x]),
             Tells(e, result, x \in network, x \in DOMAIN done, done[x])
      PROVE  Tells(e, result, x \in network', x \in DOMAIN done', done'[x])
  <2>1. CASE done' = done
    BY <1>4, <2>1 DEF Tells
  <2>2. CASE x # r
    BY <1>2, <1>4, <2>2 DEF Tells
  <2>3. CASE x = r /\ r \in network
    <3>1. NothingFound(e, result)
      BY <1>4, <2>3 DEF Tells
    <3> QED
      BY <1>3, <1>4, <2>3, <3>1, NothingTells
  <2> QED
    BY <2>1, <2>2, <2>3
<1>5. ASSUME NEW x \in DOMAIN asked', IsQuery(asked'[x])
      PROVE  /\ QueryOK(asked'[x].query) /\ asked'[x].protocol = ProtocolQuery(asked'[x].query)
             /\ x \in DOMAIN done' => done'[x].ResultCount \in Nat
  <2>1. CASE x = r
    BY <1>1, <1>3, <1>5, <2>1 DEF QueriesOK
  <2>2. CASE x # r
    BY <1>1, <1>2, <1>5, <2>2 DEF QueriesOK
  <2> QED
    BY <2>1, <2>2
<1>6. DOMAIN heard = DOMAIN asked
  BY ListFacts DEF RequestOK
<1>7. ASSUME NEW x \in DOMAIN heard', heard'[x] # << >>, IsQuery(asked'[x])
      PROVE  Tells(heard'[x][1], heard'[x][1].Result, x \in network',
                   x \in DOMAIN done', done'[x])
  <2>1. Tells(heard[x][1], heard[x][1].Result, x \in network, x \in DOMAIN done, done[x])
    BY <1>1, <1>7 DEF QueriesOK
  <2>2. PICK h : h = heard[x][1]
    OBVIOUS
  <2>3. Tells(h, h.Result, x \in network', x \in DOMAIN done', done'[x])
    BY <1>1, <1>4, <1>6, <1>7, <2>1, <2>2
  <2> QED
    BY <2>2, <2>3
<1>8. ASSUME NEW i \in DOMAIN ops, IsQuery(asked[ops[i].RequestId])
      PROVE  Tells(ops[i], ResultOf(ops[i]), ops[i].RequestId \in network',
                   ops[i].RequestId \in DOMAIN done', done'[ops[i].RequestId])
  <2>1. PICK o : o = ops[i]
    OBVIOUS
  <2>2. o.RequestId \in DOMAIN asked
    BY <2>1 DEF RequestOK, OnItsWay
  <2>3. Tells(o, ResultOf(o), o.RequestId \in network, o.RequestId \in DOMAIN done,
              done[o.RequestId])
    BY <1>8, <2>1 DEF QueriesOK
  <2>4. Tells(o, ResultOf(o), o.RequestId \in network', o.RequestId \in DOMAIN done',
              done'[o.RequestId])
    BY <1>4, <1>8, <2>1, <2>2, <2>3
  <2> QED
    BY <2>1, <2>4
<1>9. ASSUME NEW i \in DOMAIN ops', IsQuery(asked'[ops'[i].RequestId])
      PROVE  Tells(ops'[i], ResultOf(ops'[i]), ops'[i].RequestId \in network',
                   ops'[i].RequestId \in DOMAIN done', done'[ops'[i].RequestId])
  <2>1. IsQuery(asked[ops'[i].RequestId])
    BY <1>9 DEF IsQuery
  <2>2. CASE UNCHANGED ops
    BY <1>8, <2>1, <2>2
  <2>3. CASE /\ ops' = Append(ops, op)
             /\ IsQuery(asked[r]) => Tells(op, ResultOf(op), r \in network', r \in DOMAIN done', done'[r])
    <3>1. /\ Len(ops) \in Nat /\ Len(ops') = Len(ops) + 1 /\ Listed(ops')
          /\ ops'[Len(ops) + 1] = op /\ \A j \in 1 .. Len(ops) : ops'[j] = ops[j]
      BY <2>3, Appended DEF RequestOK
    <3>2. DOMAIN ops = 1 .. Len(ops) /\ DOMAIN ops' = 1 .. Len(ops) + 1
      BY <3>1, ListFacts DEF RequestOK
    <3>3. CASE i \in 1 .. Len(ops)
      <4>1. ops'[i] = ops[i] /\ i \in DOMAIN ops
        BY <3>1, <3>2, <3>3
      <4> QED
        BY <1>8, <2>1, <4>1
    <3>4. CASE i = Len(ops) + 1
      <4>1. ops'[i] = op
        BY <3>1, <3>4
      <4> QED
        BY <2>1, <2>3, <4>1
    <3> QED
      BY <3>1, <3>2, <3>3, <3>4
  <2> QED
    BY <2>2, <2>3
<1> QED
  BY <1>5, <1>7, <1>9 DEF QueriesOK

LEMMA FailureTellsNothing ==
  ASSUME NEW r, NEW status, status # "kSuccess"
  PROVE  /\ Failure(r, status).RequestId = r
         /\ NothingFound(Failure(r, status), ResultOf(Failure(r, status)))
<1>1. /\ Failure(r, status).RequestId = r /\ Failure(r, status).StatusCode = status
      /\ Failure(r, status).ResultCount = 0 /\ Failure(r, status).Result = << >>
  BY DEF Failure
<1>2. ResultOf(Failure(r, status)) = << >>
  BY <1>1 DEF ResultOf
<1> QED
  BY <1>1, <1>2 DEF NothingFound

(* Of anything but a query.                                                *)
LEMMA OtherQueries ==
  ASSUME RequestOK, QueriesOK, NEW r \in network, ~ IsQuery(asked[r]),
         NEW op, op.RequestId = r, Resolve(r, op), NEW v, done' = With(done, r, v),
         IsFiniteSet(DOMAIN world')
  PROVE  QueriesOK'
<1>1. r \in DOMAIN asked
  BY DEF RequestOK
<1>2. /\ UNCHANGED << asked, heard >> /\ network' \subseteq network
      /\ UNCHANGED ops \/ ops' = Append(ops, op)
  BY DEF Resolve
<1> QED
  BY <1>1, <1>2, AnswerQueries

LEMMA ReserveIdsQueries ==
  ASSUME RequestOK, QueriesOK, NEW r \in network, ReserveIds(r)
  PROVE  QueriesOK'
<1>1. PICK id, number, v :
        /\ done' = With(done, r, v) /\ world' = world
        /\ Resolve(r, [ Failure(r, "kSuccess") EXCEPT !.EntityId = id,
                                                      !.NumberOfEntityIds = number ])
        /\ asked[r].kind \in { "ReserveEntityId", "ReserveEntityIds" }
  BY DEF ReserveIds
<1> DEFINE op == [ Failure(r, "kSuccess") EXCEPT !.EntityId = id, !.NumberOfEntityIds = number ]
<1>2. op.RequestId = r
  BY SuccessFields
<1>3. ~ IsQuery(asked[r]) /\ IsFiniteSet(DOMAIN world')
  BY <1>1 DEF IsQuery, QueriesOK
<1> HIDE DEF op
<1> QED
  BY <1>1, <1>2, <1>3, OtherQueries DEF op

LEMMA CreateEntityQueries ==
  ASSUME RequestOK, QueriesOK, NEW r \in network, CreateEntity(r)
  PROVE  QueriesOK'
<1>1. PICK id, v, entity :
        /\ done' = With(done, r, v) /\ world' = With(world, id, entity)
        /\ Resolve(r, [ Failure(r, "kSuccess") EXCEPT !.EntityId = id ])
        /\ asked[r].kind = "CreateEntity"
  BY DEF CreateEntity
<1> DEFINE op == [ Failure(r, "kSuccess") EXCEPT !.EntityId = id ]
<1>2. op.RequestId = r
  BY SuccessFields
<1>3. ~ IsQuery(asked[r])
  BY <1>1 DEF IsQuery
<1>4. IsFiniteSet(DOMAIN world')
  <2>1. DOMAIN With(world, id, entity) = DOMAIN world \cup {id}
    BY DEF With
  <2>2. IsFiniteSet(DOMAIN world \cup {id})
    BY FS_AddElement DEF QueriesOK
  <2> QED
    BY <1>1, <2>1, <2>2
<1> HIDE DEF op
<1> QED
  BY <1>1, <1>2, <1>3, <1>4, OtherQueries DEF op

LEMMA DeleteEntityQueries ==
  ASSUME RequestOK, QueriesOK, NEW r \in network, DeleteEntity(r)
  PROVE  QueriesOK'
<1>1. PICK id, v :
        /\ done' = With(done, r, v) /\ world' = Restrict(world, DOMAIN world \ {id})
        /\ Resolve(r, Failure(r, "kSuccess"))
        /\ asked[r].kind = "DeleteEntity"
  BY DEF DeleteEntity
<1> DEFINE op == Failure(r, "kSuccess")
<1>2. op.RequestId = r
  BY SuccessFields
<1>3. ~ IsQuery(asked[r])
  BY <1>1 DEF IsQuery
<1>4. IsFiniteSet(DOMAIN world')
  <2>1. DOMAIN Restrict(world, DOMAIN world \ {id}) = DOMAIN world \ {id}
    BY DEF Restrict
  <2>2. IsFiniteSet(DOMAIN world \ {id})
    BY FS_RemoveElement DEF QueriesOK
  <2> QED
    BY <1>1, <2>1, <2>2
<1> HIDE DEF op
<1> QED
  BY <1>1, <1>2, <1>3, <1>4, OtherQueries DEF op

LEMMA AnswerQueryQueries ==
  ASSUME RequestOK, QueriesOK, NEW r \in network,
         NEW status \in { "kSuccess", "kApplicationError" }, AnswerQuery(r, status)
  PROVE  QueriesOK'
<1> DEFINE q == asked[r].query
           S == { id \in DOMAIN world : 2 * id <= nextId }
           seen == IF status = "kSuccess" THEN world ELSE Restrict(world, S)
           a == Answer(asked[r].protocol, seen)
           op == [ Failure(r, status) EXCEPT !.ResultCount = a.ResultCount, !.Result = a.Result ]
           d == Described(q, world)
<1>1. /\ IsQuery(asked[r]) /\ done' = With(done, r, d) /\ world' = world
      /\ Resolve(r, op)
  BY DEF AnswerQuery, IsQuery
<1>2. /\ UNCHANGED << asked, heard >> /\ network' \subseteq network /\ r \notin network'
      /\ UNCHANGED ops \/ ops' = Append(ops, op)
  BY <1>1 DEF Resolve
<1>3. r \in DOMAIN asked
  BY DEF RequestOK
<1>4. QueryOK(q) /\ asked[r].protocol = ProtocolQuery(q) /\ IsFiniteSet(DOMAIN world)
  BY <1>1, <1>3 DEF QueriesOK
<1>5. r \in DOMAIN done' /\ done'[r] = d
  BY <1>1, WithFields
<1>6. S \in SUBSET DOMAIN world
  OBVIOUS
<1>7. IsFiniteSet(DOMAIN seen)
  <2>1. CASE status = "kSuccess"
    BY <1>4, <2>1
  <2>2. CASE status # "kSuccess"
    <3>1. DOMAIN seen = S
      BY <2>2 DEF Restrict
    <3> QED
      BY <1>4, <1>6, <3>1, FS_Subset
  <2> QED
    BY <2>1, <2>2
<1>8. op.RequestId = r /\ op.StatusCode = status
  BY SuccessFields
<1>9. op.ResultCount = a.ResultCount /\ op.Result = a.Result
  BY DEF Failure
<1> HIDE DEF a, op, S, seen
<1>10. a.ResultCount = Described(q, seen).ResultCount /\ ResultOf(a) = Described(q, seen).Result
  BY <1>4, <1>7, AnswerDescribes DEF a
<1>11. ResultOf(op) = ResultOf(a)
  BY <1>9 DEF ResultOf
<1>12. d.ResultCount \in Nat
  BY <1>4, <1>6, DescribedSome
<1>13. Tells(op, ResultOf(op), r \in network', r \in DOMAIN done', done'[r])
  <2>1. CASE status = "kSuccess"
    <3>1. seen = world
      BY <2>1 DEF seen
    <3>2. d = [ ResultCount |-> d.ResultCount, Result |-> d.Result ]
      BY DescribedRecord
    <3>3. op.ResultCount = d.ResultCount /\ ResultOf(op) = d.Result
      BY <1>9, <1>10, <1>11, <3>1
    <3> HIDE DEF d
    <3>4. d = [ ResultCount |-> op.ResultCount, Result |-> ResultOf(op) ]
      BY <3>2, <3>3, Zenon
    <3> QED
      BY <1>2, <1>5, <1>8, <2>1, <3>4 DEF Tells
  <2>2. CASE status # "kSuccess"
    <3>1. seen = Restrict(world, S)
      BY <2>2 DEF seen
    <3>2. PICK part : part = Described(q, seen)
      OBVIOUS
    <3>3. /\ part.ResultCount <= d.ResultCount
          /\ DOMAIN part.Result \subseteq DOMAIN d.Result
          /\ \A id \in DOMAIN part.Result : part.Result[id] = d.Result[id]
      BY <1>4, <1>6, <3>1, <3>2, DescribedSome
    <3>4. op.ResultCount = part.ResultCount /\ ResultOf(op) = part.Result
      BY <1>9, <1>10, <1>11, <3>2
    <3> HIDE DEF d
    <3> QED
      BY <1>2, <1>5, <1>8, <2>2, <3>3, <3>4 DEF Tells
  <2> QED
    BY <2>1, <2>2
<1>14. IsFiniteSet(DOMAIN world')
  BY <1>1, <1>4
<1> HIDE DEF d
<1> QED
  BY <1>1, <1>2, <1>3, <1>8, <1>12, <1>13, <1>14, AnswerQueries

LEMMA RefuseQueries ==
  ASSUME RequestOK, QueriesOK, NEW r \in network, Refuse(r)
  PROVE  QueriesOK'
<1> DEFINE op == Failure(r, "kApplicationError")
<1>1. Resolve(r, op) /\ UNCHANGED << world, done >>
  BY DEF Refuse
<1>2. /\ UNCHANGED << asked, heard >> /\ network' \subseteq network
      /\ UNCHANGED ops \/ ops' = Append(ops, op)
  BY <1>1 DEF Resolve
<1>3. r \in DOMAIN asked
  BY DEF RequestOK
<1>4. op.RequestId = r /\ NothingFound(op, ResultOf(op))
  BY FailureTellsNothing
<1> HIDE DEF op
<1>5. IsQuery(asked[r]) => Tells(op, ResultOf(op), r \in network', r \in DOMAIN done', done'[r])
  BY <1>1, <1>3, <1>4, NothingTells DEF QueriesOK
<1>6. IsFiniteSet(DOMAIN world') /\ done' = done
  BY <1>1 DEF QueriesOK
<1> QED
  BY <1>2, <1>3, <1>4, <1>5, <1>6, AnswerQueries

LEMMA TimeOutQueries ==
  ASSUME RequestOK, QueriesOK, NEW r \in outstanding, TimeOutRequest(r)
  PROVE  QueriesOK'
<1> DEFINE op == Failure(r, "kTimeout")
<1>1. ops' = Append(ops, op) /\ UNCHANGED << world, done, asked, network, heard >>
  BY DEF TimeOutRequest
<1>2. r \in DOMAIN asked
  BY DEF RequestOK
<1>3. op.RequestId = r /\ NothingFound(op, ResultOf(op))
  BY FailureTellsNothing
<1> HIDE DEF op
<1>4. IsQuery(asked[r]) => Tells(op, ResultOf(op), r \in network', r \in DOMAIN done', done'[r])
  BY <1>1, <1>2, <1>3, NothingTells DEF QueriesOK
<1>5. IsFiniteSet(DOMAIN world') /\ network' \subseteq network
  BY <1>1 DEF QueriesOK
<1> QED
  BY <1>1, <1>2, <1>3, <1>4, <1>5, AnswerQueries

LEMMA QueriesStep ==
  ASSUME RequestOK, QueriesOK, RequestStep \/ RequestEnvironment
  PROVE  QueriesOK'
<1>1. CASE SendReserveEntityIdRequest
  BY <1>1, SendQueries DEF SendReserveEntityIdRequest
<1>2. CASE SendReserveEntityIdsRequest(2)
  BY <1>2, SendQueries DEF SendReserveEntityIdsRequest
<1>3. ASSUME NEW entity, NEW id, SendCreateEntityRequest(entity, id)
      PROVE  QueriesOK'
  <2>1. PICK q : q.kind = "CreateEntity" /\ SendRequest(q)
    BY <1>3 DEF SendCreateEntityRequest
  <2> QED
    BY <2>1, SendQueries
<1>4. ASSUME NEW id, SendDeleteEntityRequest(id)
      PROVE  QueriesOK'
  BY <1>4, SendQueries DEF SendDeleteEntityRequest
<1>5. ASSUME NEW query \in QuerySet, SendEntityQueryRequest(query)
      PROVE  QueriesOK'
  <2> DEFINE q == [ kind |-> "EntityQuery", query |-> query, protocol |-> ProtocolQuery(query) ]
  <2>1. q.query = query /\ q.protocol = ProtocolQuery(query) /\ SendRequest(q)
    BY <1>5 DEF SendEntityQueryRequest
  <2>2. QueryOK(query)
    BY QueriesAssumption DEF QueryOK
  <2> HIDE DEF q
  <2> QED
    BY <2>1, <2>2, SendQueries
<1>6. CASE ProcessAnswer
  BY <1>6, ProcessQueries
<1>7. CASE RequestEnvironment
  <2>1. ASSUME NEW r \in network, ReserveIds(r)
        PROVE  QueriesOK'
    BY <2>1, ReserveIdsQueries
  <2>2. ASSUME NEW r \in network, CreateEntity(r)
        PROVE  QueriesOK'
    BY <2>2, CreateEntityQueries
  <2>3. ASSUME NEW r \in network, DeleteEntity(r)
        PROVE  QueriesOK'
    BY <2>3, DeleteEntityQueries
  <2>4. ASSUME NEW r \in network, Refuse(r)
        PROVE  QueriesOK'
    BY <2>4, RefuseQueries
  <2>5. ASSUME NEW r \in network, NEW status \in { "kSuccess", "kApplicationError" },
               AnswerQuery(r, status)
        PROVE  QueriesOK'
    BY <2>5, AnswerQueryQueries
  <2>6. ASSUME NEW r \in outstanding, TimeOutRequest(r)
        PROVE  QueriesOK'
    BY <2>6, TimeOutQueries
  <2> QED
    BY <1>7, <2>1, <2>2, <2>3, <2>4, <2>5, <2>6 DEF RequestEnvironment
<1> QED
  BY <1>1, <1>2, <1>3, <1>4, <1>5, <1>6, <1>7 DEF RequestStep

LEMMA QueriesFollow ==
  RequestOK /\ QueriesOK => QueriesFindWhatTheyDescribe
<1> SUFFICES ASSUME RequestOK, QueriesOK,
                    NEW r \in DOMAIN heard, heard[r] # << >>, asked[r].kind = "EntityQuery"
             PROVE  LET h == heard[r][1]
                        described == done[r]
                    IN  IF h.StatusCode = "kSuccess"
                        THEN described = [ ResultCount |-> h.ResultCount, Result |-> h.Result ]
                        ELSE r \in DOMAIN done =>
                               /\ h.ResultCount <= described.ResultCount
                               /\ DOMAIN h.Result \subseteq DOMAIN described.Result
                               /\ \A id \in DOMAIN h.Result : h.Result[id] = described.Result[id]
  BY DEF QueriesFindWhatTheyDescribe
<1>1. PICK h : h = heard[r][1]
  OBVIOUS
<1>2. Tells(h, h.Result, r \in network, r \in DOMAIN done, done[r])
  BY <1>1 DEF QueriesOK, IsQuery
<1> QED
  BY <1>1, <1>2 DEF Tells

(* A query that succeeds finds what its constraint describes of the world  *)
(* as it was when it was carried out, however its constraint nests, and    *)
(* with an error some of it: the arrays that ConvertConstraint fills while *)
(* it allocates others, the answer, and HandleEntityQueryResponse.         *)
THEOREM QueriesFind ==
  SessionSpec => []QueriesFindWhatTheyDescribe
<1>1. SessionInit => RequestOK /\ QueriesOK
  BY RequestInitOK, QueriesInit DEF SessionInit
<1>2. RequestOK /\ QueriesOK /\ [SessionNext]_sessionVars => (RequestOK /\ QueriesOK)'
  <2> SUFFICES ASSUME RequestOK, QueriesOK, [SessionNext]_sessionVars
               PROVE  RequestOK' /\ QueriesOK'
    OBVIOUS
  <2>1. CASE RequestStep \/ RequestEnvironment
    BY <2>1, RequestStepOK, QueriesStep
  <2>2. CASE UNCHANGED requestVars
    BY <2>2 DEF requestVars, RequestOK, OnItsWay, QueriesOK
  <2> QED
    BY <2>1, <2>2 DEF SessionNext, Connecting, Using, sessionVars
<1> QED
  BY <1>1, <1>2, QueriesFollow, PTL DEF SessionSpec

=============================================================================

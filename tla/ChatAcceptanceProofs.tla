------------------------ MODULE ChatAcceptanceProofs ------------------------
(***************************************************************************)
(* What holds of POST /chat for any number of requests, users, keys and    *)
(* conversations and any settings, whatever fails: one run for a key, and  *)
(* the promise of OncePerKey.                                              *)
(***************************************************************************)
EXTENDS ChatAcceptance, TLAPS

-----------------------------------------------------------------------------
(* The inductive invariant.                                                 *)

\* The labels a handler has before its commit.
Early == {"idle", "lookup", "preflight", "claim", "guard", "write"}

\* A handler works for a request that was sent.
AskedInv == \A r \in Request : pc[r] = "idle" <=> asked[r] = NotAsked

\* Records are looked up and claimed for a key.
KeyedInv == \A r \in Request : pc[r] \in {"lookup", "claim"} => Keyed(r)

\* A claim belongs to a handler on its way to the commit of this entry.
ClaimInv ==
    \A i \in Index, r \in Request : claim[i] = r =>
        /\ pc[r] \in {"guard", "write"}
        /\ Keyed(r)
        /\ Scope(r) = i
        /\ record[i] = NoRecord

\* On that way a handler with a key has its claim.
HolderInv ==
    \A r \in Request : Keyed(r) /\ pc[r] \in {"guard", "write"} => claim[Scope(r)] = r

\* A record names a run of its own key that exists.
RecordInv ==
    \A i \in Index, r \in Request : record[i].run = r =>
        Keyed(r) /\ Scope(r) = i /\ status[r] # "NO_ROW"

\* A run for a key has its record.
RowInv ==
    \A r \in Request : Keyed(r) /\ status[r] # "NO_ROW" => record[Scope(r)].run = r

\* There is no run before the commit, and none after a refusal.
EarlyInv ==
    \A r \in Request :
        pc[r] \in Early \/ reply[r].answer \in Refusals => status[r] = "NO_ROW"

\* After the commit there is one.
LateInv == \A r \in Request : pc[r] \in {"dispatch", "wait"} => status[r] # "NO_ROW"

\* Who was answered has no more steps to take, and nobody else was told a run.
ReplyInv == \A r \in Request : pc[r] # "done" => reply[r] = Plain("none")

\* A lock is taken on the way to the commit; after its handler it is held for a
\* run, or left behind by a failure.
LockInv ==
    \A k \in LockKeys, r \in Request : lock[k] = r =>
        /\ pc[r] \in Labels \ {"idle", "lookup", "preflight", "claim", "guard"}
        /\ reply[r].answer \notin Refusals
        /\ pc[r] \in {"unlock", "done", "dead"} => r \in broken \/ status[r] # "NO_ROW"

IInv == /\ TypeOK /\ AskedInv /\ KeyedInv /\ ClaimInv /\ HolderInv /\ RecordInv
        /\ RowInv /\ EarlyInv /\ LateInv /\ ReplyInv /\ LockInv

-----------------------------------------------------------------------------
(* Identifiers.                                                             *)

\* What a request names, for a request that was sent.
LEMMA AskedTypes ==
    ASSUME NEW r \in Request, asked[r] \in Input
    PROVE  /\ asked[r].user \in User
           /\ asked[r].key \in Key \cup {NoKey}
           /\ asked[r].body \in Body
           /\ asked[r].body.conversation \in Conversation \cup {NoConversation}
           /\ asked[r] # NotAsked
           /\ Keyed(r) => Scope(r) \in Index
           /\ AnnouncedId(r) \in ConversationIds
           /\ EnsuredId(r) \in ConversationIds
           /\ LockKey(r) \in LockKeys
<1>1. asked[r] \in Asks /\ asked[r] # NotAsked
  BY InputAssumption
<1>2. /\ asked[r].user \in User
      /\ asked[r].key \in Key \cup {NoKey}
      /\ asked[r].body \in Body
  BY <1>1 DEF Asks
<1>3. asked[r].body.conversation \in Conversation \cup {NoConversation}
  BY <1>2, InputAssumption DEF Bodies
<1>4. Keyed(r) => Scope(r) \in Index
  BY <1>2 DEF Keyed, Scope, Index
<1>5. IdOf(r, "handler") \in NewIds /\ IdOf(r, "repository") \in NewIds
  BY DEF IdOf, NewIds
<1>6. AnnouncedId(r) \in ConversationIds
  BY <1>3, <1>5 DEF AnnouncedId, ConversationIds
<1>7. EnsuredId(r) \in ConversationIds
  BY <1>5, <1>6 DEF EnsuredId, ConversationIds
<1>8. LockKey(r) \in LockKeys
  BY <1>2, <1>3 DEF LockKey, LockKeys, NewConversationLocks
<1>9. QED
  BY <1>1, <1>2, <1>3, <1>4, <1>6, <1>7, <1>8

LEMMA InitIInv == Init => IInv
<1> SUFFICES ASSUME Init PROVE IInv
  OBVIOUS
<1> USE RequestAssumption, NullAssumption, InputAssumption DEF Init
<1>1. NoRecord \in Records /\ NoRecord.run = NoRequest
  BY DEF NoRecord, Records
<1>2. Plain("none") \in Replies /\ Plain("none").answer = "none"
  BY DEF Plain, Replies, Answers
<1>3. TypeOK
  BY <1>1, <1>2, OwnerAssumption DEF TypeOK, Labels, ConversationIds
<1>4. AskedInv /\ KeyedInv /\ HolderInv /\ LateInv /\ ReplyInv
  BY <1>2 DEF AskedInv, KeyedInv, HolderInv, LateInv, ReplyInv
<1>5. ClaimInv /\ RowInv
  BY DEF ClaimInv, RowInv, Keyed
<1>6. RecordInv
  BY <1>1 DEF RecordInv
<1>7. EarlyInv /\ LockInv
  BY DEF EarlyInv, LockInv
<1>8. QED
  BY <1>3, <1>4, <1>5, <1>6, <1>7 DEF IInv

-----------------------------------------------------------------------------
(* Every step keeps the invariant.                                          *)

\* A handler is at work for a request of Input.
LEMMA AtWork ==
    ASSUME IInv, NEW r \in Request, pc[r] # "idle"
    PROVE  asked[r] \in Input
BY DEF IInv, TypeOK, AskedInv

\* Plain answers and records have their types.
LEMMA PlainType ==
    ASSUME NEW answer \in Answers
    PROVE  Plain(answer) \in Replies /\ Plain(answer).answer = answer /\ Plain(answer).run = NoRequest
BY DEF Plain, Replies

LEMMA AskStep ==
    ASSUME IInv, NEW r \in Request, Ask(r)
    PROVE  IInv'
<1> USE DEF IInv, Ask, Goto
<1>1. PICK a \in Input :
         /\ asked' = [asked EXCEPT ![r] = a]
         /\ route' = [route EXCEPT ![r] = SelectRoute(a.body.mode, a.body.slow)]
         /\ pc' = [pc EXCEPT ![r] = IF a.key = NoKey THEN "preflight" ELSE "lookup"]
  OBVIOUS
<1>2. SelectRoute(a.body.mode, a.body.slow) \in {"realtime", "batch"}
  BY SettingsAssumption DEF SelectRoute
<1>3. a # NotAsked
  BY InputAssumption
<1>4. asked[r] = NotAsked
  BY DEF AskedInv
<1>5. TypeOK'
  BY <1>1, <1>2 DEF TypeOK, Labels, rows
<1>6. AskedInv' /\ KeyedInv'
  BY <1>1, <1>3 DEF AskedInv, KeyedInv, Keyed, TypeOK
<1>7. ClaimInv' /\ HolderInv'
  BY <1>1, <1>4 DEF ClaimInv, HolderInv, TypeOK, rows, Keyed, Scope
<1>8. RecordInv' /\ RowInv'
  BY <1>1, <1>4 DEF RecordInv, RowInv, EarlyInv, Early, TypeOK, rows, Keyed, Scope
<1>9. EarlyInv' /\ LateInv'
  BY <1>1 DEF EarlyInv, LateInv, Early, TypeOK, rows
<1>10. ReplyInv' /\ LockInv'
  BY <1>1 DEF ReplyInv, LockInv, TypeOK, rows, Labels
<1>11. QED
  BY <1>5, <1>6, <1>7, <1>8, <1>9, <1>10

\* A handler that has written nothing yet moves on.
LEMMA PreflightStep ==
    ASSUME IInv, NEW r \in Request,
           PreflightPasses(r) \/ PreflightDegrades(r)
    PROVE  IInv'
<1> USE DEF IInv, PreflightPasses, PreflightDegrades, Goto, AfterPreflight
<1>1. PICK label \in {"claim", "guard", "write"} :
         /\ pc' = [pc EXCEPT ![r] = label]
         /\ Keyed(r) <=> label = "claim"
  OBVIOUS
<1>2. /\ pc[r] = "preflight"
      /\ route' = route \/ route' = [route EXCEPT ![r] = "batch"]
      /\ UNCHANGED <<asked, claim, rows, sent, lock, broken, reply>>
  OBVIOUS
<1> QED
  BY <1>1, <1>2 DEF TypeOK, Labels, rows, AskedInv, KeyedInv, ClaimInv, HolderInv, RecordInv,
     RowInv, EarlyInv, LateInv, ReplyInv, LockInv, Early, Keyed, Scope

\* The answer of a replay.
LEMMA ReplayAnswer ==
    ASSUME IInv, NEW r \in Request, Keyed(r), pc[r] # "idle",
           record[Scope(r)] # NoRecord, Replay(r)
    PROVE  \E rep \in Replies :
               /\ reply' = [reply EXCEPT ![r] = rep]
               /\ pc' = [pc EXCEPT ![r] = "done"]
               /\ \/ rep = Plain("conflict")
                  \/ /\ rep.answer = "accepted"
                     /\ rep.run = record[Scope(r)].run
                     /\ rep.run \in Request
                     /\ SameRequest(r, rep.run)
<1> DEFINE rec == record[Scope(r)]
           told == [answer |-> "accepted", run |-> rec.run, conversation |-> rec.conversation]
<1>1. Scope(r) \in Index
  BY AtWork, AskedTypes
<1>2. rec \in Records \ {NoRecord}
  BY <1>1 DEF IInv, TypeOK
<1>3. rec.run \in Request /\ rec.conversation \in ConversationIds
  BY <1>2 DEF Records
<1>4. told \in Replies /\ told.answer = "accepted" /\ told.run = rec.run
  BY <1>3 DEF Replies, Answers
<1>5. Plain("conflict") \in Replies
  BY PlainType DEF Answers
<1>6. QED
  BY <1>3, <1>4, <1>5 DEF Replay, Answer, Goto

LEMMA ReplayStep ==
    ASSUME IInv, NEW r \in Request, Keyed(r), pc[r] \in {"lookup", "claim"},
           record[Scope(r)] # NoRecord, Replay(r),
           UNCHANGED <<asked, route, claim, rows, sent, lock, broken>>
    PROVE  IInv'
<1>1. PICK rep \in Replies :
         /\ reply' = [reply EXCEPT ![r] = rep]
         /\ pc' = [pc EXCEPT ![r] = "done"]
  BY ReplayAnswer
<1> QED
  BY <1>1 DEF IInv, TypeOK, Labels, rows, AskedInv, KeyedInv, ClaimInv, HolderInv, RecordInv,
     RowInv, EarlyInv, LateInv, ReplyInv, LockInv, Early, Keyed, Scope

LEMMA LookupStep ==
    ASSUME IInv, NEW r \in Request, Lookup(r)
    PROVE  IInv'
<1>1. Keyed(r)
  BY DEF Lookup, IInv, KeyedInv
<1>2. CASE record[Scope(r)] = NoRecord
  BY <1>2 DEF IInv, Lookup, Goto, TypeOK, Labels, rows, AskedInv, KeyedInv, ClaimInv, HolderInv, RecordInv,
     RowInv, EarlyInv, LateInv, ReplyInv, LockInv, Early, Keyed, Scope
<1>3. CASE record[Scope(r)] # NoRecord
  BY <1>1, <1>3, ReplayStep DEF Lookup
<1>4. QED
  BY <1>2, <1>3

\* A key has its entry in the index.
LEMMA KeyedScope ==
    ASSUME IInv
    PROVE  \A s \in Request : Keyed(s) => Scope(s) \in Index
<1> TAKE s \in Request
<1>1. CASE asked[s] \in Input
  BY <1>1, AskedTypes
<1>2. CASE asked[s] = NotAsked
  BY <1>2 DEF Keyed
<1>3. QED
  BY <1>1, <1>2 DEF IInv, TypeOK

\* Whose transaction is over, and who is on no way to a commit, holds no claim.
LEMMA RollbackStep ==
    ASSUME IInv, NEW r \in Request, Rollback(r), asked' = asked, record' = record,
           NEW label \in Labels \ {"guard", "write"}, pc' = [pc EXCEPT ![r] = label]
    PROVE  ClaimInv' /\ HolderInv' /\ claim' \in [Index -> Request \cup {NoRequest}]
<1>1. \A i \in Index : claim'[i] = IF claim[i] = r THEN NoRequest ELSE claim[i]
  BY DEF Rollback
<1>2. \A s \in Request : Keyed(s)' = Keyed(s) /\ Scope(s)' = Scope(s)
  BY DEF Keyed, Scope
<1>3. \A s \in Request \ {r} : pc'[s] = pc[s]
  BY DEF IInv, TypeOK
<1>4. pc'[r] \notin {"guard", "write"}
  BY DEF IInv, TypeOK
<1>5. ClaimInv'
  <2> SUFFICES ASSUME NEW i \in Index, NEW s \in Request, claim'[i] = s
               PROVE  /\ pc'[s] \in {"guard", "write"}
                      /\ Keyed(s) /\ Scope(s) = i /\ record[i] = NoRecord
    BY <1>2 DEF ClaimInv
  <2>1. claim[i] = s /\ s # r
    BY <1>1, RequestAssumption
  <2>2. QED
    BY <2>1, <1>3 DEF IInv, ClaimInv
<1>6. HolderInv'
  BY <1>1, <1>2, <1>3, <1>4, KeyedScope DEF IInv, HolderInv
<1>7. claim' \in [Index -> Request \cup {NoRequest}]
  BY DEF Rollback, IInv, TypeOK
<1>8. QED
  BY <1>5, <1>6, <1>7

LEMMA RefuseStep ==
    ASSUME IInv, NEW r \in Request, NEW answer \in Refusals,
           pc[r] \in {"preflight", "guard"}, Refuse(r, answer)
    PROVE  IInv'
<1>1. Plain(answer) \in Replies /\ Plain(answer).answer = answer
  BY PlainType DEF Refusals, Answers
<1>2. /\ reply' = [reply EXCEPT ![r] = Plain(answer)]
      /\ pc' = [pc EXCEPT ![r] = "done"]
      /\ Rollback(r)
      /\ UNCHANGED <<asked, route, record, status, owner, home, sent, lock, broken>>
  BY DEF Refuse, Answer, Goto, rows
<1>3. ClaimInv' /\ HolderInv' /\ claim' \in [Index -> Request \cup {NoRequest}]
  BY <1>2, RollbackStep, "done" \in Labels \ {"guard", "write"} DEF Labels
<1>4. TypeOK'
  BY <1>1, <1>2, <1>3 DEF IInv, TypeOK, Labels
<1>5. AskedInv' /\ KeyedInv' /\ RecordInv' /\ RowInv' /\ EarlyInv' /\ LateInv' /\ ReplyInv' /\ LockInv'
  BY <1>1, <1>2 DEF IInv, TypeOK, Labels, AskedInv, KeyedInv, RecordInv, RowInv, EarlyInv,
     LateInv, ReplyInv, LockInv, Early, Keyed, Scope
<1>6. QED
  BY <1>3, <1>4, <1>5 DEF IInv

LEMMA ClaimWinsStep ==
    ASSUME IInv, NEW r \in Request, ClaimWins(r)
    PROVE  IInv'
<1>1. Keyed(r) /\ Scope(r) \in Index
  BY KeyedScope DEF ClaimWins, IInv, KeyedInv
<1>2. PICK label \in {"guard", "write"} : pc' = [pc EXCEPT ![r] = label]
  BY DEF ClaimWins, Goto, AfterClaim
<1>3. /\ pc[r] = "claim"
      /\ claim[Scope(r)] = NoRequest
      /\ record[Scope(r)] = NoRecord
      /\ claim' = [claim EXCEPT ![Scope(r)] = r]
      /\ UNCHANGED <<asked, route, record, status, owner, home, sent, lock, broken, reply>>
  BY DEF ClaimWins, rows
<1>4. TypeOK'
  BY <1>1, <1>2, <1>3 DEF IInv, TypeOK, Labels
<1>5. ClaimInv'
  BY <1>1, <1>2, <1>3 DEF IInv, TypeOK, ClaimInv, Keyed, Scope
<1>6. HolderInv'
  <2> SUFFICES ASSUME NEW s \in Request, Keyed(s), pc'[s] \in {"guard", "write"}
               PROVE  claim'[Scope(s)] = s
    BY <1>3 DEF HolderInv, Keyed, Scope
  <2>1. CASE s = r
    BY <2>1, <1>1, <1>3 DEF IInv, TypeOK
  <2>2. CASE s # r
    <3>1. claim[Scope(s)] = s
      BY <2>2, <1>2 DEF IInv, TypeOK, HolderInv
    <3>2. Scope(s) # Scope(r)
      BY <3>1, <1>3, RequestAssumption
    <3>3. QED
      BY <3>1, <3>2, <1>3, KeyedScope DEF IInv, TypeOK
  <2>3. QED
    BY <2>1, <2>2
<1>7. AskedInv' /\ KeyedInv' /\ RecordInv' /\ RowInv' /\ EarlyInv' /\ LateInv' /\ ReplyInv' /\ LockInv'
  BY <1>2, <1>3 DEF IInv, TypeOK, Labels, AskedInv, KeyedInv, RecordInv, RowInv, EarlyInv,
     LateInv, ReplyInv, LockInv, Early, Keyed, Scope
<1>8. QED
  BY <1>4, <1>5, <1>6, <1>7 DEF IInv

LEMMA LockConversationStep ==
    ASSUME IInv, NEW r \in Request, LockConversation(r)
    PROVE  IInv'
<1>1. LockKey(r) \in LockKeys
  BY AtWork, AskedTypes DEF LockConversation
<1>2. /\ pc[r] = "guard"
      /\ lock' = [lock EXCEPT ![LockKey(r)] = r]
      /\ pc' = [pc EXCEPT ![r] = "write"]
      /\ UNCHANGED <<asked, route, claim, rows, sent, broken, reply>>
  BY DEF LockConversation, Goto
<1>3. reply[r].answer \notin Refusals
  BY <1>2 DEF IInv, ReplyInv, Plain, Refusals
<1>4. LockInv'
  BY <1>1, <1>2, <1>3 DEF IInv, TypeOK, LockInv, Labels, rows
<1>5. QED
  BY <1>1, <1>2, <1>4 DEF IInv, TypeOK, Labels, rows, AskedInv, KeyedInv, ClaimInv, HolderInv, RecordInv,
     RowInv, EarlyInv, LateInv, ReplyInv, Early, Keyed, Scope

LEMMA LockLooksFailedStep ==
    ASSUME IInv, NEW r \in Request, LockLooksFailed(r)
    PROVE  IInv'
<1>1. LockKey(r) \in LockKeys
  BY AtWork, AskedTypes DEF LockLooksFailed
<1>2. /\ pc[r] = "guard"
      /\ lock' = [lock EXCEPT ![LockKey(r)] = r]
      /\ broken' = broken \cup {r}
      /\ Rollback(r)
      /\ reply' = [reply EXCEPT ![r] = Plain("error")]
      /\ pc' = [pc EXCEPT ![r] = "done"]
      /\ UNCHANGED <<asked, route, record, status, owner, home, sent>>
  BY DEF LockLooksFailed, Answer, Goto, rows
<1>3. Plain("error") \in Replies /\ Plain("error").answer \notin Refusals
  BY PlainType DEF Answers, Refusals
<1>4. ClaimInv' /\ HolderInv' /\ claim' \in [Index -> Request \cup {NoRequest}]
  BY <1>2, RollbackStep, "done" \in Labels \ {"guard", "write"} DEF Labels
<1>5. TypeOK'
  BY <1>1, <1>2, <1>3, <1>4 DEF IInv, TypeOK, Labels
<1>6. LockInv'
  BY <1>1, <1>2, <1>3 DEF IInv, TypeOK, LockInv, Labels
<1>7. AskedInv' /\ KeyedInv' /\ RecordInv' /\ RowInv' /\ EarlyInv' /\ LateInv' /\ ReplyInv'
  BY <1>2, <1>3 DEF IInv, TypeOK, Labels, AskedInv, KeyedInv, RecordInv, RowInv, EarlyInv,
     LateInv, ReplyInv, Early, Keyed, Scope
<1>8. QED
  BY <1>4, <1>5, <1>6, <1>7 DEF IInv

\* The rows of a request that is about to commit, and the end of its transaction.
LEMMA WriteStep ==
    ASSUME IInv, NEW r \in Request, pc[r] = "write",
           WriteRows(r), Rollback(r), UNCHANGED asked,
           NEW label \in {"dispatch", "unlock", "done"}, pc' = [pc EXCEPT ![r] = label]
    PROVE  /\ AskedInv' /\ KeyedInv' /\ ClaimInv' /\ HolderInv' /\ RecordInv' /\ RowInv'
           /\ status' = [status EXCEPT ![r] = "PENDING"]
           /\ home' = [home EXCEPT ![r] = EnsuredId(r)]
           /\ claim' \in [Index -> Request \cup {NoRequest}]
           /\ record' \in [Index -> Records]
           /\ home' \in [Request -> ConversationIds \cup {NoConversation}]
           /\ DOMAIN owner' \subseteq ConversationIds
<1> DEFINE new == [run |-> r, conversation |-> AnnouncedId(r)]
<1>1. AnnouncedId(r) \in ConversationIds /\ EnsuredId(r) \in ConversationIds
  BY AtWork, AskedTypes
<1>2. new \in Records /\ new.run = r /\ new # NoRecord
  BY <1>1, RequestAssumption DEF Records, NoRecord
<1>3. \A i \in Index : record'[i] = IF claim[i] = r THEN new ELSE record[i]
  BY DEF WriteRows
<1>4. \A s \in Request : Keyed(s)' = Keyed(s) /\ Scope(s)' = Scope(s)
  BY DEF Keyed, Scope
<1>5. /\ status' = [status EXCEPT ![r] = "PENDING"]
      /\ home' = [home EXCEPT ![r] = EnsuredId(r)]
      /\ DOMAIN owner' = DOMAIN owner \cup {EnsuredId(r)}
  BY DEF WriteRows, EnsureConversation
<1>6. record' \in [Index -> Records]
  <2> HIDE DEF new
  <2> QED
    BY <1>2, <1>3 DEF WriteRows, IInv, TypeOK, new
<1>7. claim' \in [Index -> Request \cup {NoRequest}]
  BY DEF Rollback, IInv, TypeOK
<1>8. ClaimInv'
  <2> SUFFICES ASSUME NEW i \in Index, NEW s \in Request, claim'[i] = s
               PROVE  /\ pc'[s] \in {"guard", "write"}
                      /\ Keyed(s) /\ Scope(s) = i /\ record'[i] = NoRecord
    BY <1>4 DEF ClaimInv
  <2>1. claim[i] = s /\ s # r
    BY RequestAssumption DEF Rollback
  <2>2. record'[i] = record[i]
    BY <1>3, <2>1
  <2>3. QED
    BY <2>1, <2>2 DEF IInv, TypeOK, ClaimInv
<1>9. HolderInv'
  BY <1>4, KeyedScope DEF IInv, TypeOK, HolderInv, Rollback
<1>10. RecordInv'
  <2> SUFFICES ASSUME NEW i \in Index, NEW s \in Request, record'[i].run = s
               PROVE  Keyed(s) /\ Scope(s) = i /\ status'[s] # "NO_ROW"
    BY <1>4 DEF RecordInv
  <2>1. CASE claim[i] = r
    <3>1. s = r
      BY <1>2, <1>3, <2>1
    <3>2. QED
      BY <2>1, <3>1, <1>5 DEF IInv, TypeOK, ClaimInv
  <2>2. CASE claim[i] # r
    BY <2>2, <1>3, <1>5 DEF IInv, TypeOK, RecordInv
  <2>3. QED
    BY <2>1, <2>2
<1>11. RowInv'
  <2> SUFFICES ASSUME NEW s \in Request, Keyed(s), status'[s] # "NO_ROW"
               PROVE  record'[Scope(s)].run = s
    BY <1>4 DEF RowInv
  <2>1. Scope(s) \in Index
    BY KeyedScope
  <2>2. CASE s = r
    BY <2>1, <2>2, <1>2, <1>3 DEF IInv, HolderInv
  <2>3. CASE s # r
    <3>1. record[Scope(s)].run = s
      BY <2>3, <1>5 DEF IInv, TypeOK, RowInv
    <3>2. record[Scope(s)] # NoRecord
      BY <3>1, RequestAssumption DEF NoRecord
    <3>3. claim[Scope(s)] # r
      BY <3>2, <2>1 DEF IInv, ClaimInv
    <3>4. QED
      BY <3>1, <3>3, <2>1, <1>3
  <2>4. QED
    BY <2>2, <2>3
<1>12. AskedInv' /\ KeyedInv'
  BY <1>4 DEF IInv, TypeOK, AskedInv, KeyedInv
<1>13. home' \in [Request -> ConversationIds \cup {NoConversation}] /\ DOMAIN owner' \subseteq ConversationIds
  BY <1>1, <1>5 DEF IInv, TypeOK
<1>14. QED
  BY <1>5, <1>6, <1>7, <1>8, <1>9, <1>10, <1>11, <1>12, <1>13

LEMMA CommitStep ==
    ASSUME IInv, NEW r \in Request, Commit(r)
    PROVE  IInv'
<1>1. /\ pc[r] = "write" /\ WriteRows(r) /\ Rollback(r)
      /\ pc' = [pc EXCEPT ![r] = "dispatch"]
      /\ UNCHANGED <<asked, route, sent, lock, broken, reply>>
  BY DEF Commit, Goto
<1>2. /\ AskedInv' /\ KeyedInv' /\ ClaimInv' /\ HolderInv' /\ RecordInv' /\ RowInv'
      /\ status' = [status EXCEPT ![r] = "PENDING"]
      /\ home' = [home EXCEPT ![r] = EnsuredId(r)]
      /\ claim' \in [Index -> Request \cup {NoRequest}]
      /\ record' \in [Index -> Records]
      /\ home' \in [Request -> ConversationIds \cup {NoConversation}]
      /\ DOMAIN owner' \subseteq ConversationIds
  BY <1>1, WriteStep
<1>3. TypeOK'
  BY <1>1, <1>2 DEF IInv, TypeOK, Labels
<1>4. reply[r].answer \notin Refusals
  BY <1>1 DEF IInv, ReplyInv, Plain, Refusals
<1>5. EarlyInv' /\ LateInv' /\ ReplyInv' /\ LockInv'
  BY <1>1, <1>2, <1>4 DEF IInv, TypeOK, EarlyInv, LateInv, ReplyInv, LockInv, Early, Labels
<1>6. QED
  BY <1>2, <1>3, <1>5 DEF IInv

\* What an error leaves: an answer, or a lock still to be released.
LEMMA UnwindEffect ==
    ASSUME IInv, NEW r \in Request, pc[r] # "done", Unwind(r)
    PROVE  \E label \in {"unlock", "done"}, rep \in {Plain("none"), Plain("error")} :
               /\ pc' = [pc EXCEPT ![r] = label]
               /\ reply' = [reply EXCEPT ![r] = rep]
               /\ label # "done" => rep = Plain("none")
<1>1. reply[r] = Plain("none")
  BY DEF IInv, ReplyInv
<1>2. CASE Goto(r, "unlock") /\ UNCHANGED reply
  <2>1. reply' = [reply EXCEPT ![r] = Plain("none")]
    BY <1>1, <1>2 DEF IInv, TypeOK
  <2>2. QED
    BY <1>2, <2>1 DEF Goto
<1>3. CASE Answer(r, Plain("error"))
  BY <1>3 DEF Answer, Goto
<1>4. QED
  BY <1>2, <1>3 DEF Unwind

LEMMA CommitLooksFailedStep ==
    ASSUME IInv, NEW r \in Request, CommitLooksFailed(r)
    PROVE  IInv'
<1>1. /\ pc[r] = "write" /\ WriteRows(r) /\ Rollback(r) /\ Unwind(r)
      /\ broken' = broken \cup {r}
      /\ UNCHANGED <<asked, route, sent, lock>>
  BY DEF CommitLooksFailed
<1>2. PICK label \in {"unlock", "done"}, rep \in {Plain("none"), Plain("error")} :
         /\ pc' = [pc EXCEPT ![r] = label]
         /\ reply' = [reply EXCEPT ![r] = rep]
         /\ label # "done" => rep = Plain("none")
  BY <1>1, UnwindEffect
<1>3. rep \in Replies /\ rep.answer \notin Refusals
  BY PlainType DEF Answers, Refusals
<1>4. /\ AskedInv' /\ KeyedInv' /\ ClaimInv' /\ HolderInv' /\ RecordInv' /\ RowInv'
      /\ status' = [status EXCEPT ![r] = "PENDING"]
      /\ home' = [home EXCEPT ![r] = EnsuredId(r)]
      /\ claim' \in [Index -> Request \cup {NoRequest}]
      /\ record' \in [Index -> Records]
      /\ home' \in [Request -> ConversationIds \cup {NoConversation}]
      /\ DOMAIN owner' \subseteq ConversationIds
  BY <1>1, <1>2, WriteStep
<1>5. TypeOK'
  BY <1>1, <1>2, <1>3, <1>4 DEF IInv, TypeOK, Labels
<1>6. EarlyInv' /\ LateInv' /\ ReplyInv' /\ LockInv'
  BY <1>1, <1>2, <1>3, <1>4 DEF IInv, TypeOK, EarlyInv, LateInv, ReplyInv, LockInv, Early, Labels
<1>7. QED
  BY <1>4, <1>5, <1>6 DEF IInv

\* A transaction is given up in the middle.
LEMMA GiveUpStep ==
    ASSUME IInv, NEW r \in Request, pc[r] \notin {"idle", "done", "dead"}, Rollback(r),
           NEW label \in {"unlock", "done", "dead"},
           NEW rep \in {Plain("none"), Plain("error")}, label # "done" => rep = Plain("none"),
           pc' = [pc EXCEPT ![r] = label], reply' = [reply EXCEPT ![r] = rep],
           broken' = broken \cup {r}, UNCHANGED <<asked, route, rows, sent, lock>>
    PROVE  IInv'
<1>1. rep \in Replies /\ rep.answer \notin Refusals
  BY PlainType DEF Answers, Refusals
<1>2. ClaimInv' /\ HolderInv' /\ claim' \in [Index -> Request \cup {NoRequest}]
  BY RollbackStep DEF rows, Labels
<1>3. TypeOK'
  BY <1>1, <1>2 DEF IInv, TypeOK, Labels, rows
<1>4. AskedInv' /\ KeyedInv' /\ RecordInv' /\ RowInv' /\ EarlyInv' /\ LateInv' /\ ReplyInv'
  BY <1>1 DEF IInv, TypeOK, Labels, AskedInv, KeyedInv, RecordInv, RowInv, EarlyInv,
     LateInv, ReplyInv, Early, Keyed, Scope, rows
<1>5. LockInv'
  BY <1>1 DEF IInv, TypeOK, LockInv, Labels, rows
<1>6. QED
  BY <1>2, <1>3, <1>4, <1>5 DEF IInv

LEMMA StoreFailsStep ==
    ASSUME IInv, NEW r \in Request, StoreFails(r)
    PROVE  IInv'
<1>1. PICK label \in {"unlock", "done"}, rep \in {Plain("none"), Plain("error")} :
         /\ pc' = [pc EXCEPT ![r] = label]
         /\ reply' = [reply EXCEPT ![r] = rep]
         /\ label # "done" => rep = Plain("none")
  BY UnwindEffect DEF StoreFails
<1>2. QED
  BY <1>1, GiveUpStep DEF StoreFails

LEMMA CrashStep ==
    ASSUME IInv, NEW r \in Request, Crash(r)
    PROVE  IInv'
<1>1. reply' = [reply EXCEPT ![r] = Plain("none")]
  BY DEF IInv, TypeOK, ReplyInv, Crash
<1>2. QED
  BY <1>1, GiveUpStep DEF Crash, Goto

\* After the commit, and after an error: the answer, or the wait for it.
LEMMA AnswerStep ==
    ASSUME IInv, NEW r \in Request, pc[r] \in {"unlock", "dispatch", "wait"},
           NEW rep \in Replies, rep.answer \notin Refusals,
           Answer(r, rep), sent' \in [Request -> BOOLEAN], broken \subseteq broken', broken' \subseteq Request,
           \A k \in LockKeys : lock'[k] \in {lock[k], NoRequest},
           lock' \in [LockKeys -> Request \cup {NoRequest}],
           UNCHANGED <<asked, route, claim, rows>>
    PROVE  IInv'
<1>1. /\ pc' = [pc EXCEPT ![r] = "done"]
      /\ reply' = [reply EXCEPT ![r] = rep]
  BY DEF Answer, Goto
<1>2. TypeOK'
  BY <1>1 DEF IInv, TypeOK, Labels, rows
<1>3. AskedInv' /\ KeyedInv' /\ ClaimInv' /\ HolderInv'
  BY <1>1 DEF IInv, TypeOK, AskedInv, KeyedInv, ClaimInv, HolderInv, Keyed, Scope, rows
<1>4. RecordInv' /\ RowInv' /\ EarlyInv' /\ LateInv' /\ ReplyInv'
  BY <1>1 DEF IInv, TypeOK, RecordInv, RowInv, EarlyInv, LateInv, ReplyInv, Early, Keyed,
     Scope, rows
<1>5. LockInv'
  BY <1>1, RequestAssumption DEF IInv, TypeOK, LateInv, LockInv, Labels, rows
<1>6. QED
  BY <1>2, <1>3, <1>4, <1>5 DEF IInv

LEMMA UnlockStep ==
    ASSUME IInv, NEW r \in Request, Unlock(r)
    PROVE  IInv'
<1>1. Plain("error") \in Replies /\ Plain("error").answer \notin Refusals
  BY PlainType DEF Answers, Refusals
<1>2. lock' \in [LockKeys -> Request \cup {NoRequest}]
  BY DEF Unlock, IInv, TypeOK
<1>3. \A k \in LockKeys : lock'[k] \in {lock[k], NoRequest}
  BY DEF Unlock
<1>4. QED
  BY <1>1, <1>2, <1>3, AnswerStep DEF Unlock, IInv, TypeOK

\* The acceptance and the answer of the synchronous wait name the own run.
LEMMA OwnRunType ==
    ASSUME NEW r \in Request, NEW answer \in Acceptances,
           NEW c \in ConversationIds \cup {NoConversation}
    PROVE  LET rep == [answer |-> answer, run |-> r, conversation |-> c]
           IN  rep \in Replies /\ rep.answer \notin Refusals /\ rep.run = r
BY DEF Acceptances, Replies, Answers, Refusals

LEMMA DispatchStep ==
    ASSUME IInv, NEW r \in Request, Dispatch(r)
    PROVE  IInv'
<1> DEFINE rep == [answer |-> "accepted", run |-> r, conversation |-> AnnouncedId(r)]
<1>1. rep \in Replies /\ rep.answer \notin Refusals
  BY AtWork, AskedTypes, OwnRunType DEF Dispatch, Acceptances
<1>2. sent' \in [Request -> BOOLEAN]
  BY DEF Dispatch, IInv, TypeOK
<1>3. CASE asked[r].stream
  <2>1. Answer(r, rep)
    BY <1>3 DEF Dispatch, Accepted
  <2> HIDE DEF rep
  <2>2. QED
    BY <1>1, <1>2, <2>1, AnswerStep DEF Dispatch, IInv, TypeOK
<1>4. CASE ~asked[r].stream
  <2>1. /\ pc[r] = "dispatch" /\ pc' = [pc EXCEPT ![r] = "wait"]
        /\ UNCHANGED <<asked, route, claim, rows, lock, broken, reply>>
    BY <1>4 DEF Dispatch, Accepted, Goto
  <2>2. QED
    BY <1>2, <2>1 DEF IInv, TypeOK, Labels, rows, AskedInv, KeyedInv, ClaimInv, HolderInv, RecordInv,
       RowInv, EarlyInv, LateInv, ReplyInv, LockInv, Early, Keyed, Scope
<1>5. QED
  BY <1>3, <1>4

LEMMA WaitSyncStep ==
    ASSUME IInv, NEW r \in Request, WaitSync(r)
    PROVE  IInv'
<1>1. PICK answer \in {"finished", "timeout"}, c \in ConversationIds \cup {NoConversation} :
         Answer(r, [answer |-> answer, run |-> r, conversation |-> c])
  BY DEF WaitSync, IInv, TypeOK
<1> DEFINE rep == [answer |-> answer, run |-> r, conversation |-> c]
<1>2. rep \in Replies /\ rep.answer \notin Refusals /\ Answer(r, rep)
  BY <1>1, OwnRunType DEF Acceptances
<1> HIDE DEF rep
<1>3. QED
  BY <1>2, AnswerStep DEF WaitSync, IInv, TypeOK

LEMMA DispatchFailsStep ==
    ASSUME IInv, NEW r \in Request, DispatchFails(r)
    PROVE  IInv'
<1>1. Plain("queue") \in Replies /\ Plain("queue").answer \notin Refusals
  BY PlainType DEF Answers, Refusals
<1>2. QED
  BY <1>1, AnswerStep DEF DispatchFails, IInv, TypeOK

\* What goes on outside the handlers.
LEMMA OutsideStep ==
    ASSUME IInv, NEW r \in Request, EndRun(r) \/ ReaperSends(r) \/ ExpireLock(r)
    PROVE  IInv'
<1>1. /\ UNCHANGED <<asked, pc, route, claim, record, owner, home, broken, reply>>
      /\ status' = status \/ (status[r] = "PENDING" /\ status' = [status EXCEPT ![r] = "ENDED"])
      /\ sent' = sent \/ sent' = [sent EXCEPT ![r] = TRUE]
      /\ lock' = lock \/ lock' = [k \in LockKeys |-> IF lock[k] = r THEN NoRequest ELSE lock[k]]
  BY DEF EndRun, ReaperSends, ExpireLock, rows
<1>2. TypeOK'
  BY <1>1, ZenonT(60) DEF IInv, TypeOK
<1>3. AskedInv' /\ KeyedInv' /\ ClaimInv' /\ HolderInv' /\ ReplyInv'
  BY <1>1 DEF IInv, AskedInv, KeyedInv, ClaimInv, HolderInv, ReplyInv, Keyed, Scope
<1>4. RecordInv' /\ RowInv' /\ EarlyInv' /\ LateInv'
  BY <1>1 DEF IInv, TypeOK, RecordInv, RowInv, EarlyInv, LateInv, Keyed, Scope
<1>5. LockInv'
  BY <1>1, RequestAssumption DEF IInv, TypeOK, LockInv
<1>6. QED
  BY <1>2, <1>3, <1>4, <1>5 DEF IInv

LEMMA NextIInv == IInv /\ [Next]_vars => IInv'
<1> SUFFICES ASSUME IInv, [Next]_vars PROVE IInv'
  OBVIOUS
<1>1. CASE UNCHANGED vars
  BY <1>1 DEF vars, rows, IInv, TypeOK, AskedInv, KeyedInv, ClaimInv, HolderInv, RecordInv,
     RowInv, EarlyInv, LateInv, ReplyInv, LockInv, Keyed, Scope
<1>2. ASSUME NEW r \in Request, Ask(r) PROVE IInv'
  BY <1>2, AskStep
<1>3. ASSUME NEW r \in Request, HandlerStep(r) PROVE IInv'
  <2>1. CASE Lookup(r)
    BY <2>1, LookupStep
  <2>2. CASE PreflightPasses(r) \/ PreflightDegrades(r)
    BY <2>2, PreflightStep
  <2>3. CASE PreflightRefuses(r) \/ Forbidden(r) \/ RunnerFull(r) \/ ConversationBusy(r)
    <3>1. PICK answer \in Refusals : pc[r] \in {"preflight", "guard"} /\ Refuse(r, answer)
      BY <2>3 DEF PreflightRefuses, Forbidden, RunnerFull, ConversationBusy, Refusals
    <3>2. QED
      BY <3>1, RefuseStep
  <2>4. CASE ClaimWins(r)
    BY <2>4, ClaimWinsStep
  <2>5. CASE ClaimLoses(r)
    <3>1. Keyed(r)
      BY <2>5 DEF ClaimLoses, IInv, KeyedInv
    <3>2. QED
      BY <2>5, <3>1, ReplayStep DEF ClaimLoses
  <2>6. CASE LockConversation(r) \/ LockLooksFailed(r)
    BY <2>6, LockConversationStep, LockLooksFailedStep
  <2>7. CASE Commit(r) \/ CommitLooksFailed(r)
    BY <2>7, CommitStep, CommitLooksFailedStep
  <2>8. CASE StoreFails(r) \/ Unlock(r)
    BY <2>8, StoreFailsStep, UnlockStep
  <2>9. CASE Dispatch(r) \/ DispatchFails(r) \/ WaitSync(r)
    BY <2>9, DispatchStep, DispatchFailsStep, WaitSyncStep
  <2>10. QED
    BY <1>3, <2>1, <2>2, <2>3, <2>4, <2>5, <2>6, <2>7, <2>8, <2>9 DEF HandlerStep
<1>4. ASSUME NEW r \in Request, Crash(r) PROVE IInv'
  BY <1>4, CrashStep
<1>5. ASSUME NEW r \in Request, EndRun(r) \/ ReaperSends(r) \/ ExpireLock(r) PROVE IInv'
  BY <1>5, OutsideStep
<1>6. QED
  BY <1>1, <1>2, <1>3, <1>4, <1>5 DEF Next

LEMMA Invariance == Spec => []IInv
BY InitIInv, NextIInv, PTL DEF Spec

-----------------------------------------------------------------------------
(* What follows.                                                            *)

\* Every value has its type.
THEOREM TypeCorrect == Spec => []TypeOK
<1>1. IInv => TypeOK
  BY DEF IInv
<1>2. QED
  BY <1>1, Invariance, PTL

\* create_chat with a key makes one run, whoever else sends the same key at the
\* same time and whatever fails between the claim and the commit.
THEOREM OneRun == Spec => []OneRunPerKey
<1>1. IInv => OneRunPerKey
  <2> SUFFICES ASSUME IInv, NEW r \in Request, Keyed(r)
               PROVE  status[r] # "NO_ROW" <=> record[Scope(r)].run = r
    BY DEF OneRunPerKey
  <2>1. QED
    BY KeyedScope DEF IInv, RecordInv, RowInv
<1>2. QED
  BY <1>1, Invariance, PTL

\* Requests that were refused leave nothing, and a claim that others wait for
\* belongs to a handler that goes on.
THEOREM NoTraces == Spec => []NothingLeftBehind
<1>1. IInv => NothingLeftBehind
  <2> SUFFICES ASSUME IInv PROVE NothingLeftBehind
    OBVIOUS
  <2>1. \A i \in Index : claim[i] # NoRequest => pc[claim[i]] \in {"guard", "write"}
    BY DEF IInv, TypeOK, ClaimInv
  <2>2. ASSUME NEW r \in Request, reply[r].answer \in Refusals
        PROVE  status[r] = "NO_ROW" /\ \A k \in LockKeys : lock[k] # r
    BY <2>2 DEF IInv, EarlyInv, LockInv
  <2>3. QED
    BY <2>1, <2>2 DEF NothingLeftBehind
<1>2. QED
  BY <1>1, Invariance, PTL

\* Only ConversationBusy says so.
LEMMA ToldBusy ==
    ASSUME IInv, Next, NEW q \in Request,
           reply'[q].answer = "busy", reply[q].answer # "busy"
    PROVE  ConversationBusy(q)
<1>1. PICK r \in Request :
         Ask(r) \/ HandlerStep(r) \/ Crash(r) \/ EndRun(r) \/ ReaperSends(r) \/ ExpireLock(r)
  BY DEF Next
<1>2. reply' # reply
  OBVIOUS
<1>3. ASSUME NEW s \in Request, NEW rep, reply' = [reply EXCEPT ![s] = rep]
      PROVE  s = q /\ rep.answer = "busy"
  BY <1>3 DEF IInv, TypeOK
<1>4. HandlerStep(r)
  BY <1>1, <1>2 DEF Ask, Crash, EndRun, ReaperSends, ExpireLock
<1>5. CASE Lookup(r) \/ ClaimLoses(r)
  <2>1. record[Scope(r)] # NoRecord /\ Replay(r)
    BY <1>2, <1>5 DEF Lookup, ClaimLoses
  <2>2. Keyed(r) /\ pc[r] # "idle"
    BY <1>5 DEF Lookup, ClaimLoses, IInv, KeyedInv
  <2>3. PICK rep \in Replies : /\ reply' = [reply EXCEPT ![r] = rep]
                               /\ rep = Plain("conflict") \/ rep.answer = "accepted"
    BY <2>1, <2>2, ReplayAnswer
  <2>4. rep.answer # "busy"
    BY <2>3, PlainType DEF Answers
  <2>5. QED
    BY <1>3, <2>3, <2>4
<1>6. CASE \/ PreflightPasses(r) \/ PreflightDegrades(r) \/ ClaimWins(r)
           \/ LockConversation(r) \/ Commit(r)
  BY <1>2, <1>6 DEF PreflightPasses, PreflightDegrades, ClaimWins, LockConversation, Commit
<1>7. ASSUME NEW answer \in Answers \ {"busy"}, reply' = [reply EXCEPT ![r] = Plain(answer)]
      PROVE  FALSE
  BY <1>3, <1>7, PlainType
<1>8. CASE PreflightRefuses(r) \/ Forbidden(r) \/ RunnerFull(r)
  BY <1>7, <1>8 DEF PreflightRefuses, Forbidden, RunnerFull, Refuse, Answer, Answers
<1>9. CASE LockLooksFailed(r) \/ Unlock(r) \/ DispatchFails(r)
  BY <1>7, <1>9 DEF LockLooksFailed, Unlock, DispatchFails, Answer, Answers
<1>10. CASE StoreFails(r) \/ CommitLooksFailed(r)
  <2>1. pc[r] # "done" /\ Unwind(r)
    BY <1>10 DEF StoreFails, CommitLooksFailed
  <2>2. PICK rep \in {Plain("none"), Plain("error")} : reply' = [reply EXCEPT ![r] = rep]
    BY <2>1, UnwindEffect
  <2>3. QED
    BY <1>7, <2>2 DEF Answers
<1>11. CASE Dispatch(r) \/ WaitSync(r)
  <2>1. PICK answer \in Acceptances :
           \E c : reply' = [reply EXCEPT ![r] = [answer |-> answer, run |-> r, conversation |-> c]]
    BY <1>2, <1>11 DEF Dispatch, Accepted, WaitSync, Answer, Acceptances
  <2>2. PICK c : reply' = [reply EXCEPT ![r] = [answer |-> answer, run |-> r, conversation |-> c]]
    BY <2>1
  <2>3. answer = "busy"
    BY <1>3, <2>2
  <2>4. QED
    BY <2>3 DEF Acceptances
<1>12. CASE ConversationBusy(r)
  <2>1. r = q
    BY <1>3, <1>12 DEF ConversationBusy, Refuse, Answer
  <2>2. QED
    BY <1>12, <2>1
<1>13. QED
  BY <1>4, <1>5, <1>6, <1>8, <1>9, <1>10, <1>11, <1>12 DEF HandlerStep

\* claim_idempotency_record: who is told CONVERSATION_BUSY is not in the way of
\* himself, unless a request with his key met a failure and left its lock.
THEOREM BusyIsAnother == Spec => BusyMeansAnother
<1>1. ASSUME IInv, NEW r \in Request, ConversationBusy(r), Keyed(r),
             Scope(lock[LockKey(r)]) = Scope(r)
      PROVE  lock[LockKey(r)] \in broken
  <2> DEFINE holder == lock[LockKey(r)]
  <2>1. LockKey(r) \in LockKeys /\ holder \in Request
    BY <1>1, AtWork, AskedTypes DEF ConversationBusy, IInv, TypeOK
  <2>2. pc[holder] \in {"write", "unlock", "dispatch", "wait", "done", "dead"}
    BY <1>1, <2>1 DEF IInv, LockInv, Labels
  <2>3. Keyed(holder)
    BY <1>1, <2>1, <2>2 DEF Keyed, Scope, IInv, AskedInv
  <2>4. claim[Scope(r)] = r /\ holder # r
    BY <1>1, <2>2 DEF ConversationBusy, IInv, HolderInv
  <2>5. record[Scope(r)] = NoRecord
    BY <1>1, <2>4, KeyedScope DEF IInv, ClaimInv
  <2>6. pc[holder] # "write"
    BY <1>1, <2>1, <2>3, <2>4 DEF IInv, HolderInv
  <2>7. status[holder] = "NO_ROW"
    BY <1>1, <2>1, <2>3, <2>5, RequestAssumption DEF IInv, RowInv, NoRecord
  <2>8. QED
    BY <1>1, <2>1, <2>2, <2>6, <2>7 DEF IInv, LateInv, LockInv
<1>2. IInv /\ [Next]_vars =>
        [\A r \in Request : reply'[r].answer = "busy" /\ reply[r].answer # "busy" =>
            \/ ~Keyed(r)
            \/ Scope(lock[LockKey(r)]) # Scope(r)
            \/ lock[LockKey(r)] \in broken]_vars
  BY <1>1, ToldBusy
<1>3. QED
  BY <1>2, Invariance, PTL DEF Spec, BusyMeansAnother

-----------------------------------------------------------------------------
(* create_chat keeps the promise of OncePerKey.                             *)

\* The two variables of OncePerKey that are not those of ChatAcceptance.
Chosen == [i \in Index |-> record[i].run]
Told == [r \in Request |-> reply[r].run]

promised == <<asked, Chosen, Told>>

LEMMA InitPromise == Init => Promise!Init
BY DEF Init, Promise!Init, Index, NoRecord, Plain

\* Nothing is promised by a step that writes no record and tells no run.
LEMMA Silent ==
    ASSUME IInv, NEW r \in Request, UNCHANGED <<asked, record>>,
           reply[r].run = NoRequest,
           NEW rep \in Replies, rep.run = NoRequest, reply' = [reply EXCEPT ![r] = rep]
    PROVE  UNCHANGED promised
<1>1. Chosen' = Chosen
  BY DEF Chosen
<1>2. Told' = Told
  BY DEF Told, IInv, TypeOK
<1>3. QED
  BY <1>1, <1>2 DEF promised

LEMMA SilentPlain ==
    ASSUME IInv, NEW r \in Request, pc[r] # "done", UNCHANGED <<asked, record>>,
           NEW answer \in Answers, reply' = [reply EXCEPT ![r] = Plain(answer)]
    PROVE  UNCHANGED promised
<1>1. reply[r].run = NoRequest
  BY PlainType DEF IInv, ReplyInv, Answers
<1>2. QED
  BY <1>1, PlainType, Silent

\* Telling a run that is the chosen one, or the own one where there is no key.
LEMMA Telling ==
    ASSUME IInv, NEW r \in Request, NEW s \in Request, pc[r] \notin {"idle", "done"},
           IF Keyed(r) THEN record[Scope(r)].run = s ELSE s = r,
           SameRequest(r, s), UNCHANGED <<asked, record>>,
           NEW rep \in Replies, rep.run = s, reply' = [reply EXCEPT ![r] = rep]
    PROVE  Promise!Next
<1>1. asked[r] # NotAsked
  BY DEF IInv, AskedInv
<1>2. reply[r].run = NoRequest
  BY PlainType DEF IInv, ReplyInv, Answers
<1>3. Chosen' = Chosen
  BY DEF Chosen
<1>4. Told' = [Told EXCEPT ![r] = s]
  BY DEF Told, IInv, TypeOK
<1>5. s = IF asked[r].key = NoKey THEN r ELSE Chosen[Scope(r)]
  BY <1>1, KeyedScope DEF Keyed, Chosen
<1>6. s # NoRequest
  BY RequestAssumption
<1>7. Promise!Tell(r, s)
  BY <1>1, <1>2, <1>3, <1>4, <1>5, <1>6 DEF Promise!Tell, Promise!Scope, Scope, Chosen, Told, SameRequest
<1>8. QED
  BY <1>7 DEF Promise!Next

LEMMA AskPromise ==
    ASSUME IInv, NEW r \in Request, Ask(r)
    PROVE  Promise!Next
<1>1. PICK a \in Asks : asked' = [asked EXCEPT ![r] = a]
  BY InputAssumption DEF Ask
<1>2. asked[r] = NotAsked
  BY DEF Ask, IInv, AskedInv
<1>3. Promise!Ask(r)
  BY <1>1, <1>2 DEF Ask, rows, Promise!Ask, Promise!Asks, Asks
<1>4. QED
  BY <1>3 DEF Promise!Next

LEMMA ReplayPromise ==
    ASSUME IInv, NEW r \in Request, Keyed(r), pc[r] \in {"lookup", "claim"},
           record[Scope(r)] # NoRecord, Replay(r), UNCHANGED <<asked, record>>
    PROVE  Promise!Next \/ UNCHANGED promised
<1>1. PICK rep \in Replies :
         /\ reply' = [reply EXCEPT ![r] = rep]
         /\ \/ rep = Plain("conflict")
            \/ /\ rep.run = record[Scope(r)].run
               /\ rep.run \in Request
               /\ SameRequest(r, rep.run)
  BY ReplayAnswer
<1>2. CASE rep = Plain("conflict")
  BY <1>1, <1>2, SilentPlain DEF Answers
<1>3. CASE rep # Plain("conflict")
  BY <1>1, <1>3, Telling
<1>4. QED
  BY <1>2, <1>3

LEMMA CommitPromise ==
    ASSUME IInv, NEW r \in Request, pc[r] = "write", WriteRows(r), asked' = asked,
           Told' = Told
    PROVE  Promise!Next \/ UNCHANGED promised
<1> DEFINE new == [run |-> r, conversation |-> AnnouncedId(r)]
<1>1. \A i \in Index : Chosen'[i] = IF claim[i] = r THEN r ELSE Chosen[i]
  BY DEF WriteRows, Chosen
<1>2. CASE Keyed(r)
  <2>1. Scope(r) \in Index
    BY <1>2, KeyedScope
  <2>2. \A i \in Index : claim[i] = r <=> i = Scope(r)
    BY <1>2, <2>1 DEF IInv, ClaimInv, HolderInv
  <2>3. Chosen[Scope(r)] = NoRequest
    BY <2>1, <2>2 DEF IInv, ClaimInv, Chosen, NoRecord
  <2>4. Chosen' = [Chosen EXCEPT ![Scope(r)] = r]
    BY <1>1, <2>2 DEF Chosen
  <2>5. Promise!Choose(r)
    BY <1>2, <2>3, <2>4 DEF Promise!Choose, Promise!Scope, Scope, Keyed, Chosen, Told
  <2>6. QED
    BY <2>5 DEF Promise!Next
<1>3. CASE ~Keyed(r)
  <2>1. \A i \in Index : claim[i] # r
    BY <1>3 DEF IInv, ClaimInv
  <2>2. Chosen' = Chosen
    BY <1>1, <2>1 DEF Chosen
  <2>3. QED
    BY <2>2 DEF promised
<1>4. QED
  BY <1>2, <1>3

LEMMA TellOwn ==
    ASSUME IInv, NEW r \in Request, pc[r] \in {"dispatch", "wait"}, UNCHANGED <<asked, record>>,
           NEW rep \in Replies, rep.run = r, reply' = [reply EXCEPT ![r] = rep]
    PROVE  Promise!Next
<1>1. Keyed(r) => record[Scope(r)].run = r
  BY DEF IInv, LateInv, RowInv
<1>2. SameRequest(r, r)
  BY DEF SameRequest
<1>3. QED
  BY <1>1, <1>2, Telling

LEMMA HandlerPromise ==
    ASSUME IInv, NEW r \in Request, HandlerStep(r)
    PROVE  Promise!Next \/ UNCHANGED promised
<1>1. ASSUME UNCHANGED <<asked, record, reply>> PROVE UNCHANGED promised
  BY <1>1 DEF promised, Chosen, Told
<1>2. CASE Lookup(r)
  <2>1. CASE record[Scope(r)] = NoRecord
    BY <1>1, <1>2, <2>1 DEF Lookup, rows
  <2>2. CASE record[Scope(r)] # NoRecord
    <3>1. Keyed(r)
      BY <1>2 DEF Lookup, IInv, KeyedInv
    <3>2. QED
      BY <1>2, <2>2, <3>1, ReplayPromise DEF Lookup, rows
  <2>3. QED
    BY <2>1, <2>2
<1>3. CASE PreflightPasses(r) \/ PreflightDegrades(r) \/ ClaimWins(r) \/ LockConversation(r)
  BY <1>1, <1>3 DEF PreflightPasses, PreflightDegrades, ClaimWins, LockConversation, rows
<1>4. CASE PreflightRefuses(r) \/ Forbidden(r) \/ RunnerFull(r) \/ ConversationBusy(r)
  <2>1. PICK answer \in Refusals : pc[r] \in {"preflight", "guard"} /\ Refuse(r, answer)
    BY <1>4 DEF PreflightRefuses, Forbidden, RunnerFull, ConversationBusy, Refusals
  <2>2. answer \in Answers
    BY DEF Refusals, Answers
  <2>3. QED
    BY <2>1, <2>2, SilentPlain DEF Refuse, Answer, rows
<1>5. CASE ClaimLoses(r)
  <2>1. Keyed(r)
    BY <1>5 DEF ClaimLoses, IInv, KeyedInv
  <2>2. QED
    BY <1>5, <2>1, ReplayPromise DEF ClaimLoses, rows
<1>6. CASE LockLooksFailed(r)
  BY <1>6, SilentPlain DEF LockLooksFailed, Answer, Answers, rows
<1>7. CASE Commit(r)
  <2>1. Told' = Told
    BY <1>7 DEF Commit, Told
  <2>2. QED
    BY <1>7, <2>1, CommitPromise DEF Commit
<1>8. CASE CommitLooksFailed(r)
  <2>1. PICK rep \in {Plain("none"), Plain("error")} : reply' = [reply EXCEPT ![r] = rep]
    BY <1>8, UnwindEffect DEF CommitLooksFailed
  <2>2. rep.run = NoRequest
    BY PlainType DEF Answers
  <2>3. reply[r].run = NoRequest
    BY <1>8, PlainType DEF CommitLooksFailed, IInv, ReplyInv, Answers
  <2>4. Told' = Told
    BY <2>1, <2>2, <2>3 DEF Told, IInv, TypeOK
  <2>5. QED
    BY <1>8, <2>4, CommitPromise DEF CommitLooksFailed
<1>9. CASE StoreFails(r)
  <2>1. PICK answer \in {"none", "error"} : reply' = [reply EXCEPT ![r] = Plain(answer)]
    BY <1>9, UnwindEffect DEF StoreFails
  <2>2. QED
    BY <1>9, <2>1, SilentPlain DEF StoreFails, Answers, rows
<1>10. CASE Unlock(r) \/ DispatchFails(r)
  BY <1>10, SilentPlain DEF Unlock, DispatchFails, Answer, Answers, rows
<1>11. CASE Dispatch(r)
  <2> DEFINE rep == [answer |-> "accepted", run |-> r, conversation |-> AnnouncedId(r)]
  <2>1. rep \in Replies /\ rep.run = r
    BY <1>11, AtWork, AskedTypes, OwnRunType DEF Dispatch, Acceptances
  <2>2. CASE asked[r].stream
    <3>1. reply' = [reply EXCEPT ![r] = rep]
      BY <1>11, <2>2 DEF Dispatch, Accepted, Answer
    <3> HIDE DEF rep
    <3>2. QED
      BY <1>11, <2>1, <3>1, TellOwn DEF Dispatch, rows
  <2>3. CASE ~asked[r].stream
    BY <1>1, <1>11, <2>3 DEF Dispatch, Accepted, rows
  <2>4. QED
    BY <2>2, <2>3
<1>12. CASE WaitSync(r)
  <2>1. PICK answer \in {"finished", "timeout"}, c \in ConversationIds \cup {NoConversation} :
           reply' = [reply EXCEPT ![r] = [answer |-> answer, run |-> r, conversation |-> c]]
    BY <1>12 DEF WaitSync, Answer, IInv, TypeOK
  <2> DEFINE rep == [answer |-> answer, run |-> r, conversation |-> c]
  <2>2. rep \in Replies /\ rep.run = r /\ reply' = [reply EXCEPT ![r] = rep]
    BY <2>1, OwnRunType DEF Acceptances
  <2> HIDE DEF rep
  <2>3. QED
    BY <1>12, <2>2, TellOwn DEF WaitSync, rows
<1>13. QED
  BY <1>2, <1>3, <1>4, <1>5, <1>6, <1>7, <1>8, <1>9, <1>10, <1>11, <1>12 DEF HandlerStep

LEMMA NextPromise == IInv /\ [Next]_vars => [Promise!Next]_promised
<1> SUFFICES ASSUME IInv, [Next]_vars PROVE Promise!Next \/ UNCHANGED promised
  OBVIOUS
<1>1. ASSUME UNCHANGED <<asked, record, reply>> PROVE UNCHANGED promised
  BY <1>1 DEF promised, Chosen, Told
<1>2. CASE UNCHANGED vars
  BY <1>1, <1>2 DEF vars, rows
<1>3. ASSUME NEW r \in Request, Ask(r) PROVE Promise!Next
  BY <1>3, AskPromise
<1>4. ASSUME NEW r \in Request, HandlerStep(r) PROVE Promise!Next \/ UNCHANGED promised
  BY <1>4, HandlerPromise
<1>5. ASSUME NEW r \in Request, Crash(r) \/ EndRun(r) \/ ReaperSends(r) \/ ExpireLock(r)
      PROVE  UNCHANGED promised
  BY <1>1, <1>5 DEF Crash, EndRun, ReaperSends, ExpireLock, rows
<1>6. QED
  BY <1>2, <1>3, <1>4, <1>5 DEF Next

\* POST /chat implements OncePerKey: for every key one request is chosen, at the
\* commit of its record, and every client with this key who asked for the same
\* is told the run of that request, by the first answer, a replay or a wait.
THEOREM KeepsPromise == Spec => OncePerKey
<1>1. [Promise!Next]_promised <=> [Promise!Next]_<<asked, Chosen, Told>>
  BY DEF promised
<1>2. QED
  BY <1>1, InitPromise, NextPromise, Invariance, PTL DEF Spec, OncePerKey, Promise!Spec, Chosen, Told, promised
=============================================================================

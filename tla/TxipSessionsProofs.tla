-------------------------- MODULE TxipSessionsProofs --------------------------
(***************************************************************************)
(* Theorems about TxipSessions and their proofs: type correctness, an      *)
(* inductive invariant on the lock, the two tables and the requests under  *)
(* way, and from it the safety properties for any number of sessions,      *)
(* messages and concurrent requests.                                       *)
(***************************************************************************)
EXTENDS TxipSessions, TLAPS

(* A request under way has an envelope, and no answer before it is done.   *)
Pending == \A t \in Handlers :
    /\ pc[t] # "idle" => envelope[t] # None
    /\ pc[t] # "done" => reply[t] = None

(* The write lock is held by the task between its two steps, and by no     *)
(* other.                                                                  *)
Holding == {"hello_cache", "close_cache", "cleanup_cache"}
LockHeld == \A t \in Tasks : guard = t <=> pc[t] \in Holding

(* A session without a cache is one that HELLO is about to give one, and a *)
(* session under removal is gone from its table already.                   *)
CacheFollows ==
    /\ \A s \in SessionIds : sessions[s] # None /\ message_cache[s] = None =>
            \E t \in Handlers : pc[t] = "hello_cache" /\ envelope[t].session_id = s
    /\ \A t \in Handlers : pc[t] = "close_cache" =>
            sessions[envelope[t].session_id] = None

(* What the history calls kept is still in the cache, and what repeats it  *)
(* gets no further than the duplicate check.                               *)
InCache(t) == IsDuplicate(message_cache[envelope[t].session_id], envelope[t].msg_id)
KeptInCache == \A t \in Handlers :
    /\ kept[t] => pc[t] = "done" /\ envelope[t] # None /\ InCache(t)
    /\ replay[t] => /\ envelope[t] # None /\ InCache(t)
                    /\ pc[t] \in {"check", "done"}
                    /\ reply[t] \in {None, "duplicate", "error"}

(* A request whose session exists has seen it; so has one that opened it,  *)
(* a TGP message that found it, and whatever is recorded.                  *)
Seen == \A t \in Handlers :
    /\ envelope[t] # None /\ sessions[envelope[t].session_id] # None => saw[t]
    /\ pc[t] = "hello_cache" => saw[t]
    /\ pc[t] \in {"touch_now", "touch"} /\ envelope[t].kind = "TGP" => saw[t]
    /\ pc[t] = "record" => saw[t]
    /\ reply[t] = "processed" => saw[t]

(* The inductive invariant. *)
IInv ==
    /\ TypeOK /\ Pending /\ LockHeld /\ CacheFollows /\ KeptInCache /\ Seen
    /\ CachedIdsWereServed

-----------------------------------------------------------------------------
(* The labels of the steps and the replies, as memberships.                *)
LEMMA Known ==
    /\ "check" \in Labels /\ "hello_now" \in Labels /\ "hello_store" \in Labels
    /\ "hello_cache" \in Labels /\ "get_session" \in Labels /\ "touch_now" \in Labels
    /\ "touch" \in Labels /\ "record" \in Labels /\ "close" \in Labels
    /\ "close_cache" \in Labels /\ "done" \in Labels /\ "idle" \in Labels
    /\ "cleanup" \in Labels /\ "cleanup_cache" \in Labels
    /\ "welcome" \in Replies /\ "processed" \in Replies /\ "duplicate" \in Replies
    /\ "accepted" \in Replies /\ "closed" \in Replies /\ "error" \in Replies
  BY DEF Labels, Replies

(* Where handle_txip_message and handle_control_message send a request.    *)
LEMMA FirstSteps == \A k \in DOMAIN FirstStep :
    /\ FirstStep[k] \in {"touch_now", "close", "get_session", "hello_now"}
    /\ k = "TGP" => FirstStep[k] = "get_session"
  BY DEF FirstStep

(* An envelope names a session and a message id and has a kind...          *)
LEMMA EnvelopeType ==
    ASSUME TypeOK, NEW t \in Handlers, envelope[t] # None
    PROVE  /\ envelope[t].session_id \in SessionIds
           /\ envelope[t].msg_id \in MsgIds
           /\ envelope[t].kind \in Kinds
  BY EnvelopeAssumption DEF TypeOK, Envelope

(* ...and a request under way has one.                                     *)
LEMMA Request ==
    ASSUME TypeOK, Pending, NEW t \in Handlers, pc[t] # "idle"
    PROVE  /\ envelope[t] # None
           /\ envelope[t].session_id \in SessionIds
           /\ envelope[t].msg_id \in MsgIds
           /\ envelope[t].kind \in Kinds
  BY EnvelopeType DEF Pending

(* Every step keeps the types: what a request reads from its envelope, the *)
(* clock and the tables is what it may write to them.                      *)
LEMMA TypeStep == TypeOK /\ Pending /\ [Next]_vars => TypeOK'
<1> SUFFICES ASSUME TypeOK, Pending, [Next]_vars PROVE TypeOK'
  OBVIOUS
<1>1. CASE Tick
  BY <1>1, Known, FirstSteps, Request, TaskAssumption
  DEF Tick, table, history, TypeOK, Tasks, SessionInfo
<1>2. ASSUME NEW t \in Handlers, NEW e \in Envelopes, Receive(t, e) PROVE TypeOK'
  BY <1>2, Known DEF Receive, Goto, table, TypeOK, Tasks
<1>3. ASSUME NEW t \in Handlers, handle_txip_message(t) PROVE TypeOK'
  BY <1>3, Known, FirstSteps, Request, TaskAssumption
  DEF handle_txip_message, Goto, Answer, IsDuplicate, table, history, TypeOK, Tasks,
      SessionInfo
<1>4. ASSUME NEW t \in Handlers, hello_now(t) PROVE TypeOK'
  BY <1>4, Known, FirstSteps, Request, TaskAssumption
  DEF hello_now, Goto, Answer, ReadClock, table, history, TypeOK, Tasks, SessionInfo
<1>5. ASSUME NEW t \in Handlers, hello_store(t) PROVE TypeOK'
  BY <1>5, Known, FirstSteps, Request, TaskAssumption
  DEF hello_store, Lock, Goto, Forgotten, Concerns, table, history, TypeOK, Tasks,
      SessionInfo
<1>6. ASSUME NEW t \in Handlers, hello_cache(t) PROVE TypeOK'
  BY <1>6, Known, FirstSteps, Request, TaskAssumption
  DEF hello_cache, Unlock, Goto, Forget, Concerns, table, history, TypeOK, Tasks,
      SessionInfo
<1>7. ASSUME NEW t \in Handlers, get_session(t) PROVE TypeOK'
  BY <1>7, Known, FirstSteps, Request, TaskAssumption
  DEF get_session, Goto, Answer, table, history, TypeOK, Tasks, SessionInfo
<1>8. ASSUME NEW t \in Handlers, touch_now(t) PROVE TypeOK'
  BY <1>8, Known, FirstSteps, Request, TaskAssumption
  DEF touch_now, Goto, ReadClock, table, history, TypeOK, Tasks, SessionInfo
<1>9. ASSUME NEW t \in Handlers, touch(t) PROVE TypeOK'
  BY <1>9, Known, FirstSteps, Request, TaskAssumption
  DEF touch, Goto, Answer, Forgotten, table, history, TypeOK, Tasks, SessionInfo
<1>10. ASSUME NEW t \in Handlers, record_message(t) PROVE TypeOK'
  BY <1>10, Known, FirstSteps, Request, TaskAssumption
  DEF record_message, Goto, Answer, Recorded, table, history, TypeOK, Tasks,
      SessionInfo
<1>11. ASSUME NEW t \in Handlers, close_session(t) PROVE TypeOK'
  BY <1>11, Known, FirstSteps, Request, TaskAssumption
  DEF close_session, Lock, Goto, table, history, TypeOK, Tasks, SessionInfo
<1>12. ASSUME NEW t \in Handlers, close_cache(t) PROVE TypeOK'
  BY <1>12, Known, FirstSteps, Request, TaskAssumption
  DEF close_cache, Unlock, Goto, Answer, Forget, Concerns, table, history, TypeOK,
      Tasks, SessionInfo
<1>13. CASE cleanup_now
  BY <1>13, Known, FirstSteps, Request, TaskAssumption
  DEF cleanup_now, Goto, ReadClock, table, history, TypeOK, Tasks, SessionInfo
<1>14. CASE cleanup_expired
  BY <1>14, Known, FirstSteps, Request, TaskAssumption
  DEF cleanup_expired, Lock, Goto, Forgotten, table, history, TypeOK, Tasks,
      SessionInfo
<1>15. CASE cleanup_cache
  BY <1>15, Known, FirstSteps, Request, TaskAssumption
  DEF cleanup_cache, Unlock, Goto, Forget, Concerns, Inactive, table, history,
      TypeOK, Tasks, SessionInfo
<1>16. CASE UNCHANGED vars
  BY <1>16 DEF vars, table, history, TypeOK, Tasks, SessionInfo
<1> QED BY <1>1, <1>2, <1>3, <1>4, <1>5, <1>6, <1>7, <1>8, <1>9, <1>10,
          <1>11, <1>12, <1>13, <1>14, <1>15, <1>16 DEF Next, Handle, Clean

(* A request has its envelope from when it arrives, its answer only once   *)
(* it is done.                                                             *)
LEMMA PendingStep == TypeOK /\ Pending /\ [Next]_vars => Pending'
<1> SUFFICES ASSUME TypeOK, Pending, [Next]_vars PROVE Pending'
  OBVIOUS
<1>1. CASE Tick
  BY <1>1, TaskAssumption, EnvelopeAssumption
  DEF Tick, table, history, TypeOK, Pending, Tasks
<1>2. ASSUME NEW t \in Handlers, NEW e \in Envelopes, Receive(t, e) PROVE Pending'
  BY <1>2, TaskAssumption, EnvelopeAssumption
  DEF Receive, Goto, Concerns, table, history, TypeOK, Pending, Tasks
<1>3. ASSUME NEW t \in Handlers, handle_txip_message(t) PROVE Pending'
  BY <1>3, TaskAssumption, EnvelopeAssumption
  DEF handle_txip_message, Goto, Answer, IsDuplicate, table, history, TypeOK,
      Pending, Tasks
<1>4. ASSUME NEW t \in Handlers, hello_now(t) PROVE Pending'
  BY <1>4, TaskAssumption, EnvelopeAssumption
  DEF hello_now, Goto, Answer, ReadClock, table, history, TypeOK, Pending, Tasks
<1>5. ASSUME NEW t \in Handlers, hello_store(t) PROVE Pending'
  BY <1>5, TaskAssumption, EnvelopeAssumption
  DEF hello_store, Lock, Goto, Forgotten, Concerns, table, history, TypeOK, Pending,
      Tasks
<1>6. ASSUME NEW t \in Handlers, hello_cache(t) PROVE Pending'
  BY <1>6, TaskAssumption, EnvelopeAssumption
  DEF hello_cache, Unlock, Goto, Forget, Concerns, table, history, TypeOK, Pending,
      Tasks
<1>7. ASSUME NEW t \in Handlers, get_session(t) PROVE Pending'
  BY <1>7, TaskAssumption, EnvelopeAssumption
  DEF get_session, Goto, Answer, table, history, TypeOK, Pending, Tasks
<1>8. ASSUME NEW t \in Handlers, touch_now(t) PROVE Pending'
  BY <1>8, TaskAssumption, EnvelopeAssumption
  DEF touch_now, Goto, ReadClock, table, history, TypeOK, Pending, Tasks
<1>9. ASSUME NEW t \in Handlers, touch(t) PROVE Pending'
  BY <1>9, TaskAssumption, EnvelopeAssumption
  DEF touch, Goto, Answer, Forgotten, table, history, TypeOK, Pending, Tasks
<1>10. ASSUME NEW t \in Handlers, record_message(t) PROVE Pending'
  BY <1>10, TaskAssumption, EnvelopeAssumption
  DEF record_message, Goto, Answer, Recorded, table, history, TypeOK, Pending, Tasks
<1>11. ASSUME NEW t \in Handlers, close_session(t) PROVE Pending'
  BY <1>11, TaskAssumption, EnvelopeAssumption
  DEF close_session, Lock, Goto, table, history, TypeOK, Pending, Tasks
<1>12. ASSUME NEW t \in Handlers, close_cache(t) PROVE Pending'
  BY <1>12, TaskAssumption, EnvelopeAssumption
  DEF close_cache, Unlock, Goto, Answer, Forget, Concerns, table, history, TypeOK,
      Pending, Tasks
<1>13. CASE cleanup_now
  BY <1>13, TaskAssumption, EnvelopeAssumption
  DEF cleanup_now, Goto, ReadClock, table, history, TypeOK, Pending, Tasks
<1>14. CASE cleanup_expired
  BY <1>14, TaskAssumption, EnvelopeAssumption
  DEF cleanup_expired, Lock, Goto, Forgotten, table, history, TypeOK, Pending, Tasks
<1>15. CASE cleanup_cache
  BY <1>15, TaskAssumption, EnvelopeAssumption
  DEF cleanup_cache, Unlock, Goto, Forget, Concerns, Inactive, table, history,
      TypeOK, Pending, Tasks
<1>16. CASE UNCHANGED vars
  BY <1>16 DEF vars, table, history, TypeOK, Pending, Tasks
<1> QED BY <1>1, <1>2, <1>3, <1>4, <1>5, <1>6, <1>7, <1>8, <1>9, <1>10,
          <1>11, <1>12, <1>13, <1>14, <1>15, <1>16 DEF Next, Handle, Clean

(* hello_store, close_session and cleanup_expired take the lock, the step  *)
(* that follows each drops it, and the others leave it alone.              *)
LEMMA LockStep == TypeOK /\ LockHeld /\ [Next]_vars => LockHeld'
<1> SUFFICES ASSUME TypeOK, LockHeld, [Next]_vars PROVE LockHeld'
  OBVIOUS
<1>1. CASE Tick
  BY <1>1, TaskAssumption, FirstSteps
  DEF Tick, table, history, TypeOK, LockHeld, Holding, Tasks
<1>2. ASSUME NEW t \in Handlers, NEW e \in Envelopes, Receive(t, e) PROVE LockHeld'
  BY <1>2, TaskAssumption, FirstSteps
  DEF Receive, Goto, Concerns, table, history, TypeOK, LockHeld, Holding, Tasks
<1>3. ASSUME NEW t \in Handlers, handle_txip_message(t) PROVE LockHeld'
  BY <1>3, TaskAssumption, FirstSteps
  DEF handle_txip_message, Goto, Answer, IsDuplicate, table, history, TypeOK,
      LockHeld, Holding, Tasks
<1>4. ASSUME NEW t \in Handlers, hello_now(t) PROVE LockHeld'
  BY <1>4, TaskAssumption, FirstSteps
  DEF hello_now, Goto, Answer, ReadClock, table, history, TypeOK, LockHeld, Holding,
      Tasks
<1>5. ASSUME NEW t \in Handlers, hello_store(t) PROVE LockHeld'
  BY <1>5, TaskAssumption, FirstSteps
  DEF hello_store, Lock, Goto, Forgotten, Concerns, table, history, TypeOK, LockHeld,
      Holding, Tasks
<1>6. ASSUME NEW t \in Handlers, hello_cache(t) PROVE LockHeld'
  BY <1>6, TaskAssumption, FirstSteps
  DEF hello_cache, Unlock, Goto, Forget, Concerns, table, history, TypeOK, LockHeld,
      Holding, Tasks
<1>7. ASSUME NEW t \in Handlers, get_session(t) PROVE LockHeld'
  BY <1>7, TaskAssumption, FirstSteps
  DEF get_session, Goto, Answer, table, history, TypeOK, LockHeld, Holding, Tasks
<1>8. ASSUME NEW t \in Handlers, touch_now(t) PROVE LockHeld'
  BY <1>8, TaskAssumption, FirstSteps
  DEF touch_now, Goto, ReadClock, table, history, TypeOK, LockHeld, Holding, Tasks
<1>9. ASSUME NEW t \in Handlers, touch(t) PROVE LockHeld'
  BY <1>9, TaskAssumption, FirstSteps
  DEF touch, Goto, Answer, Forgotten, table, history, TypeOK, LockHeld, Holding,
      Tasks
<1>10. ASSUME NEW t \in Handlers, record_message(t) PROVE LockHeld'
  BY <1>10, TaskAssumption, FirstSteps
  DEF record_message, Goto, Answer, Recorded, table, history, TypeOK, LockHeld,
      Holding, Tasks
<1>11. ASSUME NEW t \in Handlers, close_session(t) PROVE LockHeld'
  BY <1>11, TaskAssumption, FirstSteps
  DEF close_session, Lock, Goto, table, history, TypeOK, LockHeld, Holding, Tasks
<1>12. ASSUME NEW t \in Handlers, close_cache(t) PROVE LockHeld'
  BY <1>12, TaskAssumption, FirstSteps
  DEF close_cache, Unlock, Goto, Answer, Forget, Concerns, table, history, TypeOK,
      LockHeld, Holding, Tasks
<1>13. CASE cleanup_now
  BY <1>13, TaskAssumption, FirstSteps
  DEF cleanup_now, Goto, ReadClock, table, history, TypeOK, LockHeld, Holding, Tasks
<1>14. CASE cleanup_expired
  BY <1>14, TaskAssumption, FirstSteps
  DEF cleanup_expired, Lock, Goto, Forgotten, table, history, TypeOK, LockHeld,
      Holding, Tasks
<1>15. CASE cleanup_cache
  BY <1>15, TaskAssumption, FirstSteps
  DEF cleanup_cache, Unlock, Goto, Forget, Concerns, Inactive, table, history,
      TypeOK, LockHeld, Holding, Tasks
<1>16. CASE UNCHANGED vars
  BY <1>16 DEF vars, table, history, TypeOK, LockHeld, Holding, Tasks
<1> QED BY <1>1, <1>2, <1>3, <1>4, <1>5, <1>6, <1>7, <1>8, <1>9, <1>10,
          <1>11, <1>12, <1>13, <1>14, <1>15, <1>16 DEF Next, Handle, Clean

(* A cache is dropped only when its session is gone, and by whoever holds  *)
(* the lock.                                                               *)
LEMMA CacheStep ==
    TypeOK /\ Pending /\ LockHeld /\ CacheFollows /\ [Next]_vars => CacheFollows'
<1> SUFFICES ASSUME TypeOK, Pending, LockHeld, CacheFollows, [Next]_vars PROVE CacheFollows'
  OBVIOUS
<1>1. CASE Tick
  BY <1>1, Request, FirstSteps, TaskAssumption
  DEF Tick, table, history, TypeOK, LockHeld, Holding, CacheFollows, Tasks
<1>2. ASSUME NEW t \in Handlers, NEW e \in Envelopes, Receive(t, e) PROVE CacheFollows'
  BY <1>2, Request, FirstSteps, TaskAssumption
  DEF Receive, Goto, Concerns, table, history, TypeOK, LockHeld, Holding,
      CacheFollows, Tasks
<1>3. ASSUME NEW t \in Handlers, handle_txip_message(t) PROVE CacheFollows'
  BY <1>3, Request, FirstSteps, TaskAssumption
  DEF handle_txip_message, Goto, Answer, IsDuplicate, table, history, TypeOK,
      LockHeld, Holding, CacheFollows, Tasks
<1>4. ASSUME NEW t \in Handlers, hello_now(t) PROVE CacheFollows'
  BY <1>4, Request, FirstSteps, TaskAssumption
  DEF hello_now, Goto, Answer, ReadClock, table, history, TypeOK, LockHeld, Holding,
      CacheFollows, Tasks
<1>5. ASSUME NEW t \in Handlers, hello_store(t) PROVE CacheFollows'
  BY <1>5, Request, FirstSteps, TaskAssumption
  DEF hello_store, Lock, Goto, Forgotten, Concerns, table, history, TypeOK, LockHeld,
      Holding, CacheFollows, Tasks
<1>6. ASSUME NEW t \in Handlers, hello_cache(t) PROVE CacheFollows'
  BY <1>6, Request, FirstSteps, TaskAssumption
  DEF hello_cache, Unlock, Goto, Forget, Concerns, table, history, TypeOK, LockHeld,
      Holding, CacheFollows, Tasks
<1>7. ASSUME NEW t \in Handlers, get_session(t) PROVE CacheFollows'
  BY <1>7, Request, FirstSteps, TaskAssumption
  DEF get_session, Goto, Answer, table, history, TypeOK, LockHeld, Holding,
      CacheFollows, Tasks
<1>8. ASSUME NEW t \in Handlers, touch_now(t) PROVE CacheFollows'
  BY <1>8, Request, FirstSteps, TaskAssumption
  DEF touch_now, Goto, ReadClock, table, history, TypeOK, LockHeld, Holding,
      CacheFollows, Tasks
<1>9. ASSUME NEW t \in Handlers, touch(t) PROVE CacheFollows'
  BY <1>9, Request, FirstSteps, TaskAssumption
  DEF touch, Goto, Answer, Forgotten, table, history, TypeOK, LockHeld, Holding,
      CacheFollows, Tasks
<1>10. ASSUME NEW t \in Handlers, record_message(t) PROVE CacheFollows'
  BY <1>10, Request, FirstSteps, TaskAssumption
  DEF record_message, Goto, Answer, Recorded, table, history, TypeOK, LockHeld,
      Holding, CacheFollows, Tasks
<1>11. ASSUME NEW t \in Handlers, close_session(t) PROVE CacheFollows'
  BY <1>11, Request, FirstSteps, TaskAssumption
  DEF close_session, Lock, Goto, table, history, TypeOK, LockHeld, Holding,
      CacheFollows, Tasks
<1>12. ASSUME NEW t \in Handlers, close_cache(t) PROVE CacheFollows'
  BY <1>12, Request, FirstSteps, TaskAssumption
  DEF close_cache, Unlock, Goto, Answer, Forget, Concerns, table, history, TypeOK,
      LockHeld, Holding, CacheFollows, Tasks
<1>13. CASE cleanup_now
  BY <1>13, Request, FirstSteps, TaskAssumption
  DEF cleanup_now, Goto, ReadClock, table, history, TypeOK, LockHeld, Holding,
      CacheFollows, Tasks
<1>14. CASE cleanup_expired
  BY <1>14, Request, FirstSteps, TaskAssumption
  DEF cleanup_expired, Lock, Goto, Forgotten, table, history, TypeOK, LockHeld,
      Holding, CacheFollows, Tasks
<1>15. CASE cleanup_cache
  BY <1>15, Request, FirstSteps, TaskAssumption
  DEF cleanup_cache, Unlock, Goto, Forget, Concerns, Inactive, table, history,
      TypeOK, LockHeld, Holding, CacheFollows, Tasks
<1>16. CASE UNCHANGED vars
  BY <1>16 DEF vars, table, history, TypeOK, LockHeld, Holding, CacheFollows, Tasks
<1> QED BY <1>1, <1>2, <1>3, <1>4, <1>5, <1>6, <1>7, <1>8, <1>9, <1>10,
          <1>11, <1>12, <1>13, <1>14, <1>15, <1>16 DEF Next, Handle, Clean

(* An id leaves the cache only with the whole cache, and then it is        *)
(* forgotten by the history too.                                           *)
LEMMA KeptStep == TypeOK /\ Pending /\ KeptInCache /\ [Next]_vars => KeptInCache'
<1> SUFFICES ASSUME TypeOK, Pending, KeptInCache, [Next]_vars PROVE KeptInCache'
  OBVIOUS
<1>1. CASE Tick
  BY <1>1, Request, FirstSteps, TaskAssumption
  DEF Tick, table, history, TypeOK, KeptInCache, InCache, IsDuplicate, Tasks
<1>2. ASSUME NEW t \in Handlers, NEW e \in Envelopes, Receive(t, e) PROVE KeptInCache'
  <2>1. e # None /\ envelope'[t] = e /\ pc'[t] = "check" /\ ~ kept[t]
    BY <1>2, TaskAssumption DEF Receive, Goto, TypeOK, Tasks, KeptInCache
  <2>2. reply[t] = None
    BY <1>2 DEF Receive, Pending
  <2>3. \A u \in Handlers \ {t} : envelope'[u] = envelope[u] /\ pc'[u] = pc[u]
                                    /\ replay'[u] = replay[u]
    BY <1>2 DEF Receive, Goto, TypeOK, Tasks
  <2>4. UNCHANGED <<message_cache, kept, reply>>
    BY <1>2 DEF Receive, table
  <2>5. replay'[t] => IsDuplicate(message_cache[e.session_id], e.msg_id)
    BY <1>2 DEF Receive, Concerns, TypeOK, KeptInCache, InCache
  <2> QED BY <2>1, <2>2, <2>3, <2>4, <2>5 DEF KeptInCache, InCache
<1>3. ASSUME NEW t \in Handlers, handle_txip_message(t) PROVE KeptInCache'
  BY <1>3, Request, FirstSteps, TaskAssumption
  DEF handle_txip_message, Goto, Answer, IsDuplicate, table, history, TypeOK,
      KeptInCache, InCache, IsDuplicate, Tasks
<1>4. ASSUME NEW t \in Handlers, hello_now(t) PROVE KeptInCache'
  BY <1>4, Request, FirstSteps, TaskAssumption
  DEF hello_now, Goto, Answer, ReadClock, table, history, TypeOK, KeptInCache,
      InCache, IsDuplicate, Tasks
<1>5. ASSUME NEW t \in Handlers, hello_store(t) PROVE KeptInCache'
  BY <1>5, Request, FirstSteps, TaskAssumption
  DEF hello_store, Lock, Goto, Forgotten, Concerns, table, history, TypeOK,
      KeptInCache, InCache, IsDuplicate, Tasks
<1>6. ASSUME NEW t \in Handlers, hello_cache(t) PROVE KeptInCache'
  BY <1>6, Request, FirstSteps, TaskAssumption
  DEF hello_cache, Unlock, Goto, Forget, Concerns, table, history, TypeOK,
      KeptInCache, InCache, IsDuplicate, Tasks
<1>7. ASSUME NEW t \in Handlers, get_session(t) PROVE KeptInCache'
  BY <1>7, Request, FirstSteps, TaskAssumption
  DEF get_session, Goto, Answer, table, history, TypeOK, KeptInCache, InCache,
      IsDuplicate, Tasks
<1>8. ASSUME NEW t \in Handlers, touch_now(t) PROVE KeptInCache'
  BY <1>8, Request, FirstSteps, TaskAssumption
  DEF touch_now, Goto, ReadClock, table, history, TypeOK, KeptInCache, InCache,
      IsDuplicate, Tasks
<1>9. ASSUME NEW t \in Handlers, touch(t) PROVE KeptInCache'
  BY <1>9, Request, FirstSteps, TaskAssumption
  DEF touch, Goto, Answer, Forgotten, table, history, TypeOK, KeptInCache, InCache,
      IsDuplicate, Tasks
<1>10. ASSUME NEW t \in Handlers, record_message(t) PROVE KeptInCache'
  BY <1>10, Request, FirstSteps, TaskAssumption
  DEF record_message, Goto, Answer, Recorded, table, history, TypeOK, KeptInCache,
      InCache, IsDuplicate, Tasks
<1>11. ASSUME NEW t \in Handlers, close_session(t) PROVE KeptInCache'
  BY <1>11, Request, FirstSteps, TaskAssumption
  DEF close_session, Lock, Goto, table, history, TypeOK, KeptInCache, InCache,
      IsDuplicate, Tasks
<1>12. ASSUME NEW t \in Handlers, close_cache(t) PROVE KeptInCache'
  BY <1>12, Request, FirstSteps, TaskAssumption
  DEF close_cache, Unlock, Goto, Answer, Forget, Concerns, table, history, TypeOK,
      KeptInCache, InCache, IsDuplicate, Tasks
<1>13. CASE cleanup_now
  BY <1>13, Request, FirstSteps, TaskAssumption
  DEF cleanup_now, Goto, ReadClock, table, history, TypeOK, KeptInCache, InCache,
      IsDuplicate, Tasks
<1>14. CASE cleanup_expired
  BY <1>14, Request, FirstSteps, TaskAssumption
  DEF cleanup_expired, Lock, Goto, Forgotten, table, history, TypeOK, KeptInCache,
      InCache, IsDuplicate, Tasks
<1>15. CASE cleanup_cache
  BY <1>15, Request, FirstSteps, TaskAssumption
  DEF cleanup_cache, Unlock, Goto, Forget, Concerns, Inactive, table, history,
      TypeOK, KeptInCache, InCache, IsDuplicate, Tasks
<1>16. CASE UNCHANGED vars
  BY <1>16 DEF vars, table, history, TypeOK, KeptInCache, InCache, IsDuplicate, Tasks
<1> QED BY <1>1, <1>2, <1>3, <1>4, <1>5, <1>6, <1>7, <1>8, <1>9, <1>10,
          <1>11, <1>12, <1>13, <1>14, <1>15, <1>16 DEF Next, Handle, Clean

(* A session appears for all requests that name it, and one that a request *)
(* found has been there.                                                   *)
LEMMA SeenStep == TypeOK /\ Pending /\ Seen /\ [Next]_vars => Seen'
<1> SUFFICES ASSUME TypeOK, Pending, Seen, [Next]_vars PROVE Seen'
  OBVIOUS
<1>1. CASE Tick
  BY <1>1, Request, EnvelopeType, FirstSteps, TaskAssumption
  DEF Tick, table, history, TypeOK, Seen, Tasks
<1>2. ASSUME NEW t \in Handlers, NEW e \in Envelopes, Receive(t, e) PROVE Seen'
  <2>1. pc[t] = "idle" /\ pc'[t] = "check" /\ reply'[t] = None /\ envelope'[t] = e
    BY <1>2 DEF Receive, Goto, Pending, TypeOK, Tasks
  <2>2. saw'[t] = (sessions[e.session_id] # None)
    BY <1>2 DEF Receive, TypeOK
  <2>3. \A u \in Handlers \ {t} : envelope'[u] = envelope[u] /\ pc'[u] = pc[u]
                                    /\ saw'[u] = saw[u]
    BY <1>2 DEF Receive, Goto, TypeOK, Tasks
  <2>4. UNCHANGED <<sessions, reply>> /\ None # "processed"
    BY <1>2, Known, TaskAssumption DEF Receive, table
  <2> QED BY <2>1, <2>2, <2>3, <2>4 DEF Seen
<1>3. ASSUME NEW t \in Handlers, handle_txip_message(t) PROVE Seen'
  BY <1>3, Request, EnvelopeType, FirstSteps, TaskAssumption
  DEF handle_txip_message, Goto, Answer, IsDuplicate, table, history, TypeOK, Seen,
      Tasks
<1>4. ASSUME NEW t \in Handlers, hello_now(t) PROVE Seen'
  BY <1>4, Request, EnvelopeType, FirstSteps, TaskAssumption
  DEF hello_now, Goto, Answer, ReadClock, table, history, TypeOK, Seen, Tasks
<1>5. ASSUME NEW t \in Handlers, hello_store(t) PROVE Seen'
  BY <1>5, Request, EnvelopeType, FirstSteps, TaskAssumption
  DEF hello_store, Lock, Goto, Forgotten, Concerns, table, history, TypeOK, Seen,
      Tasks
<1>6. ASSUME NEW t \in Handlers, hello_cache(t) PROVE Seen'
  BY <1>6, Request, EnvelopeType, FirstSteps, TaskAssumption
  DEF hello_cache, Unlock, Goto, Forget, Concerns, table, history, TypeOK, Seen,
      Tasks
<1>7. ASSUME NEW t \in Handlers, get_session(t) PROVE Seen'
  BY <1>7, Request, EnvelopeType, FirstSteps, TaskAssumption
  DEF get_session, Goto, Answer, table, history, TypeOK, Seen, Tasks
<1>8. ASSUME NEW t \in Handlers, touch_now(t) PROVE Seen'
  BY <1>8, Request, EnvelopeType, FirstSteps, TaskAssumption
  DEF touch_now, Goto, ReadClock, table, history, TypeOK, Seen, Tasks
<1>9. ASSUME NEW t \in Handlers, touch(t) PROVE Seen'
  BY <1>9, Request, EnvelopeType, FirstSteps, TaskAssumption
  DEF touch, Goto, Answer, Forgotten, table, history, TypeOK, Seen, Tasks
<1>10. ASSUME NEW t \in Handlers, record_message(t) PROVE Seen'
  BY <1>10, Request, EnvelopeType, FirstSteps, TaskAssumption
  DEF record_message, Goto, Answer, Recorded, table, history, TypeOK, Seen, Tasks
<1>11. ASSUME NEW t \in Handlers, close_session(t) PROVE Seen'
  BY <1>11, Request, EnvelopeType, FirstSteps, TaskAssumption
  DEF close_session, Lock, Goto, table, history, TypeOK, Seen, Tasks
<1>12. ASSUME NEW t \in Handlers, close_cache(t) PROVE Seen'
  BY <1>12, Request, EnvelopeType, FirstSteps, TaskAssumption
  DEF close_cache, Unlock, Goto, Answer, Forget, Concerns, table, history, TypeOK,
      Seen, Tasks
<1>13. CASE cleanup_now
  BY <1>13, Request, EnvelopeType, FirstSteps, TaskAssumption
  DEF cleanup_now, Goto, ReadClock, table, history, TypeOK, Seen, Tasks
<1>14. CASE cleanup_expired
  BY <1>14, Request, EnvelopeType, FirstSteps, TaskAssumption
  DEF cleanup_expired, Lock, Goto, Forgotten, table, history, TypeOK, Seen, Tasks
<1>15. CASE cleanup_cache
  BY <1>15, Request, EnvelopeType, FirstSteps, TaskAssumption
  DEF cleanup_cache, Unlock, Goto, Forget, Concerns, Inactive, table, history,
      TypeOK, Seen, Tasks
<1>16. CASE UNCHANGED vars
  BY <1>16 DEF vars, table, history, TypeOK, Seen, Tasks
<1> QED BY <1>1, <1>2, <1>3, <1>4, <1>5, <1>6, <1>7, <1>8, <1>9, <1>10,
          <1>11, <1>12, <1>13, <1>14, <1>15, <1>16 DEF Next, Handle, Clean

(* An id enters a cache when its request is recorded, which has seen the   *)
(* session, and its record lasts as long as the cache.                     *)
LEMMA ServedStep ==
    TypeOK /\ Pending /\ KeptInCache /\ Seen /\ CachedIdsWereServed /\ [Next]_vars
        => CachedIdsWereServed'
<1> SUFFICES ASSUME TypeOK, Pending, KeptInCache, Seen, CachedIdsWereServed, [Next]_vars,
                    NEW s \in SessionIds, message_cache'[s] # None, NEW m \in message_cache'[s]
             PROVE  (\E t \in Handlers :
                        kept[t] /\ saw[t] /\ Concerns(t, s) /\ envelope[t].msg_id = m)'
  BY DEF CachedIdsWereServed
<1>1. ASSUME message_cache'[s] = message_cache[s]
      PROVE  \E t \in Handlers :
                kept[t] /\ saw[t] /\ Concerns(t, s) /\ envelope[t].msg_id = m
  BY <1>1 DEF CachedIdsWereServed
<1>2. ASSUME UNCHANGED <<message_cache, envelope, kept>>,
             \A u \in Handlers : saw[u] => saw'[u]
      PROVE  (\E t \in Handlers :
                kept[t] /\ saw[t] /\ Concerns(t, s) /\ envelope[t].msg_id = m)'
  BY <1>1, <1>2 DEF Concerns
<1>3. CASE Tick \/ cleanup_now \/ cleanup_expired \/ UNCHANGED vars
  BY <1>2, <1>3 DEF Tick, cleanup_now, cleanup_expired, vars, table, history
<1>4. ASSUME NEW t \in Handlers,
             \/ handle_txip_message(t) \/ hello_now(t) \/ get_session(t) \/ touch_now(t)
             \/ touch(t) \/ close_session(t)
      PROVE  (\E u \in Handlers :
                kept[u] /\ saw[u] /\ Concerns(u, s) /\ envelope[u].msg_id = m)'
  BY <1>2, <1>4 DEF handle_txip_message, hello_now, get_session, touch_now, touch,
     close_session, table, history
<1>5. ASSUME NEW t \in Handlers, hello_store(t)
      PROVE  (\E u \in Handlers :
                kept[u] /\ saw[u] /\ Concerns(u, s) /\ envelope[u].msg_id = m)'
  BY <1>2, <1>5 DEF hello_store, TypeOK
<1>6. ASSUME NEW t \in Handlers, NEW e \in Envelopes, Receive(t, e)
      PROVE  (\E u \in Handlers :
                kept[u] /\ saw[u] /\ Concerns(u, s) /\ envelope[u].msg_id = m)'
  <2>1. PICK u \in Handlers : kept[u] /\ saw[u] /\ Concerns(u, s) /\ envelope[u].msg_id = m
    BY <1>1, <1>6 DEF Receive, table
  <2>2. u # t
    BY <1>6, <2>1 DEF Receive, KeptInCache
  <2>3. kept'[u] = kept[u] /\ saw'[u] = saw[u] /\ envelope'[u] = envelope[u]
    BY <1>6, <2>2 DEF Receive, TypeOK
  <2> QED BY <2>1, <2>3 DEF Concerns
<1>7. ASSUME NEW t \in Handlers, record_message(t)
      PROVE  (\E u \in Handlers :
                kept[u] /\ saw[u] /\ Concerns(u, s) /\ envelope[u].msg_id = m)'
  <2>1. /\ pc[t] = "record" /\ envelope[t] # None /\ envelope[t].session_id \in SessionIds
        /\ UNCHANGED <<envelope, saw>> /\ kept'[t] /\ saw[t]
        /\ \A u \in Handlers : kept[u] => kept'[u]
    BY <1>7, Request DEF record_message, TypeOK, Seen
  <2>2. CASE envelope[t].session_id = s /\ envelope[t].msg_id = m
    BY <2>1, <2>2 DEF Concerns
  <2>3. CASE ~ (envelope[t].session_id = s /\ envelope[t].msg_id = m)
    <3>1. message_cache[s] # None /\ m \in message_cache[s]
      BY <1>7, <2>1, <2>3 DEF record_message, Recorded, TypeOK
    <3>2. PICK u \in Handlers : kept[u] /\ saw[u] /\ Concerns(u, s) /\ envelope[u].msg_id = m
      BY <3>1 DEF CachedIdsWereServed
    <3> QED BY <2>1, <3>2 DEF Concerns
  <2> QED BY <2>2, <2>3
<1>8. ASSUME NEW S, Forget(S), s \notin S, UNCHANGED <<envelope, saw>>,
             message_cache'[s] = message_cache[s]
      PROVE  (\E u \in Handlers :
                kept[u] /\ saw[u] /\ Concerns(u, s) /\ envelope[u].msg_id = m)'
  <2>1. PICK u \in Handlers : kept[u] /\ saw[u] /\ Concerns(u, s) /\ envelope[u].msg_id = m
    BY <1>1, <1>8
  <2>2. kept'[u]
    BY <1>8, <2>1 DEF Forget, Concerns
  <2> QED BY <1>8, <2>1, <2>2 DEF Concerns
<1>9. ASSUME NEW t \in Handlers, hello_cache(t) \/ close_cache(t)
      PROVE  (\E u \in Handlers :
                kept[u] /\ saw[u] /\ Concerns(u, s) /\ envelope[u].msg_id = m)'
  <2>1. /\ Forget({envelope[t].session_id}) /\ UNCHANGED <<envelope, saw>>
        /\ s # envelope[t].session_id => message_cache'[s] = message_cache[s]
        /\ s = envelope[t].session_id => message_cache'[s] \in {None, {}}
    BY <1>9 DEF hello_cache, close_cache, TypeOK
  <2>2. s # envelope[t].session_id
    BY <2>1
  <2> QED BY <1>8, <2>1, <2>2
<1>10. CASE cleanup_cache
  <2>1. /\ Forget(Inactive) /\ UNCHANGED <<envelope, saw>>
        /\ message_cache'[s] = IF s \in Inactive THEN None ELSE message_cache[s]
    BY <1>10 DEF cleanup_cache
  <2> QED BY <1>8, <2>1
<1> QED BY <1>3, <1>4, <1>5, <1>6, <1>7, <1>9, <1>10 DEF Next, Handle, Clean

-----------------------------------------------------------------------------
(* The invariant holds in every state: each request's history, the lock    *)
(* and the two tables agree.                                               *)
THEOREM IInvCorrect == Spec => []IInv
<1>1. Init => IInv
  <2> SUFFICES ASSUME Init PROVE IInv
    OBVIOUS
  <2>1. TypeOK
    BY Known, TaskAssumption DEF Init, TypeOK, Tasks
  <2>2. Pending /\ LockHeld
    BY TaskAssumption DEF Init, Pending, LockHeld, Holding, Tasks
  <2>3. CacheFollows /\ KeptInCache
    BY DEF Init, CacheFollows, KeptInCache, Tasks
  <2>4. Seen
    BY Known, TaskAssumption DEF Init, Seen, Tasks
  <2>5. CachedIdsWereServed
    BY DEF Init, CachedIdsWereServed
  <2> QED BY <2>1, <2>2, <2>3, <2>4, <2>5 DEF IInv
<1>2. IInv /\ [Next]_vars => IInv'
  BY TypeStep, PendingStep, LockStep, CacheStep, KeptStep, SeenStep, ServedStep DEF IInv
<1> QED BY <1>1, <1>2, PTL DEF Spec

(* The variables of sessions, requests and clock keep their types, and no  *)
(* instant was read from the future.                                       *)
THEOREM TypeCorrect == Spec => []TypeOK
<1>1. IInv => TypeOK
  BY DEF IInv
<1> QED BY <1>1, IInvCorrect, PTL

(* Nobody finds a session without its message cache: handle_hello,         *)
(* close_session and cleanup_expired change both under the lock.           *)
THEOREM SessionHasCacheCorrect == Spec => []SessionHasCache
<1>1. IInv => SessionHasCache
  <2> SUFFICES ASSUME IInv, guard = None, NEW s \in SessionIds,
                      sessions[s] # None, message_cache[s] = None
               PROVE  FALSE
    BY DEF SessionHasCache
  <2>1. PICK t \in Handlers : pc[t] = "hello_cache"
    BY DEF IInv, CacheFollows
  <2>2. guard = t
    BY <2>1 DEF IInv, LockHeld, Holding, Tasks
  <2> QED BY <2>2, TaskAssumption DEF Tasks
<1> QED BY <1>1, IInvCorrect, PTL

(* is_duplicate_message calls nothing a duplicate that was not recorded    *)
(* for a request that had a session, since that session was last opened:   *)
(* for any number of sessions, ids and concurrent requests.                *)
THEOREM CachedIdsWereServedCorrect == Spec => []CachedIdsWereServed
<1>1. IInv => CachedIdsWereServed
  BY DEF IInv
<1> QED BY <1>1, IInvCorrect, PTL

(* handle_txip_message drops every replay of a recorded message, as long   *)
(* as its session was not opened anew or removed.                          *)
THEOREM ReplaysAreDroppedCorrect == Spec => []ReplaysAreDropped
<1>1. IInv => ReplaysAreDropped
  BY DEF IInv, KeptInCache, ReplaysAreDropped
<1> QED BY <1>1, IInvCorrect, PTL

(* handle_tgp_message only processes a message whose session existed while *)
(* it was handled.                                                         *)
THEOREM ServedInSessionCorrect == Spec => []ServedInSession
<1>1. IInv => ServedInSession
  BY DEF IInv, Seen, ServedInSession
<1> QED BY <1>1, IInvCorrect, PTL

(* cleanup_expired removes idle sessions only, whenever it read the clock. *)
THEOREM OnlyIdleSessionsExpireCorrect == Spec => OnlyIdleSessionsExpire
<1>1. TypeOK /\ [Next]_vars => [ExpiredWereIdle]_vars
  <2> SUFFICES ASSUME TypeOK, Next, NEW s \in SessionIds, Expired(s)
               PROVE  mono > sessions[s].last_activity_mono + Timeout
    BY DEF ExpiredWereIdle
  <2> USE DEF Expired
  <2>1. sessions' # sessions
    BY DEF TypeOK
  <2>2. ASSUME NEW t \in Handlers, Handle(t) PROVE FALSE
    <3>1. t # Cleaner
      BY TaskAssumption
    <3>2. hello_store(t) \/ touch(t) \/ close_session(t)
      BY <2>1, <2>2 DEF Handle, table, handle_txip_message, hello_now, hello_cache,
            get_session, touch_now, record_message, close_cache
    <3>3. ~ hello_store(t) /\ ~ close_session(t)
      BY <3>1 DEF hello_store, close_session, Lock
    <3>4. touch(t) => guard = None /\ guard' = None
      BY DEF touch
    <3> QED BY <3>2, <3>3, <3>4, TaskAssumption DEF Tasks
  <2>3. cleanup_expired
    BY <2>1, <2>2 DEF Next, Clean, table, Tick, Receive, cleanup_now, cleanup_cache
  <2>4. is_timed_out(sessions[s].last_activity_mono, now[Cleaner])
    BY <2>3 DEF cleanup_expired
  <2>5. /\ now[Cleaner] \in Nat /\ now[Cleaner] <= mono /\ mono \in Nat
        /\ sessions[s].last_activity_mono \in Nat
    BY DEF TypeOK, Tasks, SessionInfo
  <2> QED BY <2>4, <2>5, TimeAssumption DEF is_timed_out
<1> QED BY <1>1, TypeCorrect, PTL DEF Spec, OnlyIdleSessionsExpire

-----------------------------------------------------------------------------
(* How many steps a request has before it, at most. *)
StepsLeft == [idle |-> 6, check |-> 5, hello_now |-> 4, hello_store |-> 3,
              hello_cache |-> 2, get_session |-> 4, touch_now |-> 3, touch |-> 2,
              record |-> 1, close |-> 2, close_cache |-> 1, done |-> 0]

(* A step of a request brings it nearer to its answer, and a step of       *)
(* another request, of the cleaner or of the clock sets it back nowhere.   *)
NearerTheAnswer == \A t \in Handlers :
    pc'[t] # pc[t] => /\ {pc[t], pc'[t]} \subseteq DOMAIN StepsLeft
                      /\ StepsLeft[pc'[t]] < StepsLeft[pc[t]]

(* Whoever holds the lock is at a step that waits for nobody, and gives it *)
(* back in that step.                                                      *)
HolderGivesBack ==
    /\ guard # None => guard \in Tasks /\ pc[guard] \in Holding
    /\ \A t \in Tasks : pc[t] \in Holding /\ pc'[t] # pc[t] => guard' = None

(* No request goes round in circles: each is answered after at most six of *)
(* its steps.  With LockComesBack this is the safety part of               *)
(* EveryRequestAnswered.                                                   *)
THEOREM AnswersComeNearer == Spec => [][NearerTheAnswer]_vars
<1>1. TypeOK /\ Pending /\ [Next]_vars => [NearerTheAnswer]_vars
  <2> SUFFICES ASSUME TypeOK, Pending, Next, NEW t \in Handlers, pc'[t] # pc[t]
               PROVE  /\ {pc[t], pc'[t]} \subseteq DOMAIN StepsLeft
                      /\ StepsLeft[pc'[t]] < StepsLeft[pc[t]]
    BY DEF NearerTheAnswer
  <2>t. pc \in [Tasks -> Labels] /\ t \in Tasks /\ t # Cleaner
    BY TaskAssumption DEF TypeOK, Tasks
  <2>1. ASSUME NEW u \in Handlers, NEW e \in Envelopes, Receive(u, e)
        PROVE  pc[t] = "idle" /\ pc'[t] = "check"
    BY <2>1, <2>t DEF Receive, Goto
  <2>2. ASSUME NEW u \in Handlers, Handle(u) PROVE u = t
    BY <2>2, <2>t DEF Handle, handle_txip_message, hello_now, hello_store, hello_cache,
       get_session, touch_now, touch, record_message, close_session, close_cache,
       Goto, Answer
  <2>3. Tick \/ Clean => FALSE
    BY <2>t DEF Tick, Clean, cleanup_now, cleanup_expired, cleanup_cache, Goto
  <2>4. CASE Handle(t)
    <3>1. CASE handle_txip_message(t)
      <4>1. pc[t] = "check" /\ pc'[t] \in {"done", "touch_now", "close", "get_session", "hello_now"}
        BY <3>1, <2>t, FirstSteps DEF handle_txip_message, Goto, Answer
      <4> QED BY <4>1 DEF StepsLeft
    <3>2. CASE hello_now(t) \/ hello_store(t) \/ hello_cache(t)
      <4>1. <<pc[t], pc'[t]>> \in {<<"hello_now", "hello_store">>, <<"hello_now", "done">>,
                <<"hello_store", "hello_cache">>, <<"hello_cache", "record">>}
        BY <3>2, <2>t DEF hello_now, hello_store, hello_cache, Goto, Answer
      <4> QED BY <4>1 DEF StepsLeft
    <3>3. CASE get_session(t) \/ touch_now(t) \/ touch(t) \/ record_message(t)
      <4>1. <<pc[t], pc'[t]>> \in {<<"get_session", "touch_now">>, <<"get_session", "done">>,
                <<"touch_now", "touch">>, <<"touch", "record">>, <<"touch", "done">>,
                <<"record", "done">>}
        BY <3>3, <2>t DEF get_session, touch_now, touch, record_message, Goto, Answer
      <4> QED BY <4>1 DEF StepsLeft
    <3>4. CASE close_session(t) \/ close_cache(t)
      <4>1. <<pc[t], pc'[t]>> \in {<<"close", "close_cache">>, <<"close_cache", "done">>}
        BY <3>4, <2>t DEF close_session, close_cache, Goto, Answer
      <4> QED BY <4>1 DEF StepsLeft
    <3> QED BY <2>4, <3>1, <3>2, <3>3, <3>4 DEF Handle
  <2>5. CASE pc[t] = "idle" /\ pc'[t] = "check"
    BY <2>5 DEF StepsLeft
  <2> QED BY <2>1, <2>2, <2>3, <2>4, <2>5 DEF Next
<1>2. IInv => TypeOK /\ Pending
  BY DEF IInv
<1> QED BY <1>1, <1>2, IInvCorrect, PTL DEF Spec

(* The write lock of the session table comes back: its holder waits for no *)
(* other task and releases it in its next step.                            *)
THEOREM LockComesBack == Spec => [][HolderGivesBack]_vars
<1>1. TypeOK /\ LockHeld /\ LockHeld' /\ [Next]_vars => [HolderGivesBack]_vars
  <2> SUFFICES ASSUME TypeOK, LockHeld, LockHeld', Next PROVE HolderGivesBack
    OBVIOUS
  <2>1. guard # None => guard \in Tasks /\ pc[guard] \in Holding
    BY DEF TypeOK, LockHeld
  <2>2. ASSUME NEW t \in Tasks, pc[t] \in Holding, pc'[t] # pc[t] PROVE guard' = None
    <3>t. /\ pc \in [Tasks -> Labels] /\ Cleaner \in Tasks /\ Handlers \subseteq Tasks
          /\ pc[t] \notin {"idle", "check", "hello_now", "hello_store", "get_session",
                           "touch_now", "touch", "record", "close", "cleanup"}
      BY <2>2 DEF TypeOK, Tasks, Holding
    <3>1. ASSUME NEW u \in Handlers, Handle(u) PROVE hello_cache(u) \/ close_cache(u)
      BY <2>2, <3>t, <3>1 DEF Handle, handle_txip_message, hello_now, hello_store,
         get_session, touch_now, touch, record_message, close_session, Goto, Answer
    <3>2. Clean => cleanup_cache
      BY <2>2, <3>t DEF Clean, cleanup_now, cleanup_expired, Goto
    <3>3. /\ ~ Tick
          /\ \A u \in Handlers, e \in Envelopes : ~ Receive(u, e)
      BY <2>2, <3>t DEF Tick, Receive, Goto
    <3> QED BY <3>1, <3>2, <3>3 DEF Next, hello_cache, close_cache, cleanup_cache, Unlock
  <2> QED BY <2>1, <2>2 DEF HolderGivesBack
<1>2. IInv => TypeOK /\ LockHeld
  BY DEF IInv
<1> QED BY <1>1, <1>2, IInvCorrect, PTL DEF Spec
=============================================================================

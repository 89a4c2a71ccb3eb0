----------------------------- MODULE TxipSessions -----------------------------
(***************************************************************************)
(* TxIP sessions under concurrent HTTP requests                            *)
(* (crates/txip/txip_session_v03.rs, txip_http_handler_v03.rs).            *)
(*                                                                         *)
(* Every request is handled by a task of its own; a further task runs      *)
(* cleanup_expired.  They share the session table and the message cache,   *)
(* each behind a lock of its own.  A task takes a lock, works, and drops   *)
(* it, so a step is one critical section or one reading of the clock, and  *)
(* between two steps of a task any other task may run.  Only handle_hello, *)
(* close_session and cleanup_expired hold a lock, that of the session      *)
(* table, while they take the other: they are two steps with the guard     *)
(* held in between.                                                        *)
(*                                                                         *)
(* A session keeps the two instants that are compared; what HELLO          *)
(* negotiates is stored and never read.  An envelope is its session, its   *)
(* message id and its kind.                                                *)
(***************************************************************************)
EXTENDS Integers

CONSTANTS
    SessionIds, MsgIds,
    Envelopes,    \* what clients send, and may send again
    Handlers,     \* requests: each handles one envelope
    Cleaner,      \* the task that calls cleanup_expired
    Timeout,      \* session_timeout_seconds
    None,         \* Option::None; a free lock; no reply yet
    MaxMono,      \* bound: the clock stops here
    MaxCleanups   \* bound on the calls of cleanup_expired

VARIABLES
    sessions,       \* HashMap<String, SessionInfo>; None: no such key
    message_cache,  \* HashMap<String, HashSet<String>>; None: no such key
    guard,          \* the task holding the write lock of sessions
    mono,           \* timestamp_provider.now().mono
    pc, now,        \* per task: next step, and its local `now`
    envelope,       \* per handler: the request it handles
    reply,          \* per handler: how it was answered
    cleanups,
    \* History of each request:
    saw,            \* its session existed at some instant since it arrived
    kept,           \* it was recorded, and no HELLO, CLOSE or cleanup has
                    \* dropped the cache of its session since
    replay          \* when it arrived an equal request was kept, and still is

table == <<sessions, message_cache, guard>>
history == <<saw, kept, replay>>
vars == <<table, mono, pc, now, envelope, reply, cleanups, history>>

Tasks == Handlers \cup {Cleaner}

-----------------------------------------------------------------------------
Kinds == {"HELLO", "HELLO without common version or chain", "HEARTBEAT", "CLOSE",
          "WELCOME", "TGP", "ERROR", "INVALID"}

Envelope == [session_id: SessionIds, msg_id: MsgIds, kind: Kinds]

SessionInfo == [created_mono: Nat, last_activity_mono: Nat]

(* Replies: a duplicate and a processed message are both "accepted" on the *)
(* wire.                                                                   *)
Replies == {"welcome", "processed", "duplicate", "accepted", "closed", "error"}

Labels == {"idle", "check", "hello_now", "hello_store", "hello_cache", "get_session",
           "touch_now", "touch", "record", "close", "close_cache", "done",
           "cleanup", "cleanup_cache"}

ASSUME EnvelopeAssumption == Envelopes \subseteq Envelope
ASSUME TaskAssumption ==
    /\ Cleaner \notin Handlers
    /\ None \notin Tasks /\ None \notin Envelopes /\ None \notin Replies
    /\ None \notin SessionInfo /\ \A c \in SUBSET MsgIds : c # None
ASSUME TimeAssumption == Timeout \in Nat /\ MaxMono \in Nat /\ MaxCleanups \in Nat

-----------------------------------------------------------------------------
Init ==
    /\ sessions = [s \in SessionIds |-> None]
    /\ message_cache = [s \in SessionIds |-> None]
    /\ guard = None
    /\ mono = 0
    /\ pc = [t \in Tasks |-> "idle"]
    /\ now = [t \in Tasks |-> 0]
    /\ envelope = [t \in Handlers |-> None]
    /\ reply = [t \in Handlers |-> None]
    /\ cleanups = 0
    /\ saw = [t \in Handlers |-> FALSE]
    /\ kept = [t \in Handlers |-> FALSE]
    /\ replay = [t \in Handlers |-> FALSE]

(* mutant: the clock can be set back *)
Tick_set ==
    /\ mono' \in 0..MaxMono
    /\ UNCHANGED <<table, pc, now, envelope, reply, cleanups, history>>

Tick ==
    /\ mono < MaxMono
    /\ mono' = mono + 1
    /\ UNCHANGED <<table, pc, now, envelope, reply, cleanups, history>>

Goto(t, label) == pc' = [pc EXCEPT ![t] = label]
Answer(t, r) == Goto(t, "done") /\ reply' = [reply EXCEPT ![t] = r]

ReadClock(t) == now' = [now EXCEPT ![t] = mono]
Forgotten(t) == now' = [now EXCEPT ![t] = 0]   \* the local is not used again

(* The write lock of sessions is taken, and kept by the caller's guard.    *)
Lock(t) == guard = None /\ guard' = t
Unlock(t) == guard' = None

(* is_duplicate_message, on the cache c of the session *)
IsDuplicate(c, m) == c # None /\ m \in c

(* mutant: only the latest id is kept *)
Recorded_latest(c, m) == {m}

(* What record_message leaves of the cache c: entry().or_insert_with().    *)
Recorded(c, m) == IF c = None THEN {m} ELSE c \cup {m}

Concerns(u, s) == envelope[u] # None /\ envelope[u].session_id = s

(* A client sends an envelope, for the first time or again. *)
Receive(t, e) ==
    /\ pc[t] = "idle"
    /\ envelope' = [envelope EXCEPT ![t] = e]
    /\ Goto(t, "check")
    /\ saw' = [saw EXCEPT ![t] = sessions[e.session_id] # None]
    /\ replay' = [replay EXCEPT ![t] = \E u \in Handlers :
            kept[u] /\ Concerns(u, e.session_id) /\ envelope[u].msg_id = e.msg_id]
    /\ UNCHANGED <<table, mono, now, reply, cleanups, kept>>

(* handle_txip_message: validation, the duplicate check, the routing.      *)
FirstStep == [k \in Kinds \ {"WELCOME", "ERROR", "INVALID"} |->
    CASE k = "HEARTBEAT" -> "touch_now"
      [] k = "CLOSE" -> "close"
      [] k = "TGP" -> "get_session"
      [] OTHER -> "hello_now"]

handle_txip_message(t) ==
    LET e == envelope[t]
        duplicate == IsDuplicate(message_cache[e.session_id], e.msg_id) IN
    /\ pc[t] = "check"
    /\ \/ e.kind = "INVALID" /\ Answer(t, "error")
       \/ e.kind # "INVALID" /\ duplicate /\ Answer(t, "duplicate")
       \/ e.kind = "ERROR" /\ ~ duplicate /\ Answer(t, "accepted")
       \/ e.kind = "WELCOME" /\ ~ duplicate /\ Answer(t, "error")
       \/ /\ e.kind \in DOMAIN FirstStep /\ ~ duplicate
          /\ Goto(t, FirstStep[e.kind])
          /\ UNCHANGED reply
    /\ UNCHANGED <<table, mono, now, envelope, cleanups, history>>

-----------------------------------------------------------------------------
(* HELLO.  The clock is read before the lock is taken. *)
hello_now(t) ==
    /\ pc[t] = "hello_now"
    /\ IF envelope[t].kind = "HELLO"
       THEN ReadClock(t) /\ Goto(t, "hello_store") /\ UNCHANGED reply
       ELSE Answer(t, "error") /\ UNCHANGED now
    /\ UNCHANGED <<table, mono, envelope, cleanups, history>>

hello_store(t) ==
    LET s == envelope[t].session_id IN
    /\ pc[t] = "hello_store"
    /\ Lock(t)
    /\ sessions' = [sessions EXCEPT ![s] =
            [created_mono |-> now[t], last_activity_mono |-> now[t]]]
    /\ saw' = [u \in Handlers |-> saw[u] \/ Concerns(u, s)]
    /\ Forgotten(t)
    /\ Goto(t, "hello_cache")
    /\ UNCHANGED <<message_cache, mono, envelope, reply, cleanups, kept, replay>>

(* The caches of the sessions in S are replaced or dropped: what was kept  *)
(* there is forgotten, and what repeated it is no replay any more.         *)
Forget(S) ==
    LET Kept(f) == [u \in Handlers |-> f[u] /\ ~ \E s \in S : Concerns(u, s)] IN
    kept' = Kept(kept) /\ replay' = Kept(replay)

(* mutant: it asks for the session while it holds the guard *)
hello_cache_asks(t) ==
    /\ pc[t] = "hello_cache"
    /\ guard = None
    /\ message_cache' = [message_cache EXCEPT ![envelope[t].session_id] = {}]
    /\ Unlock(t)
    /\ Forget({envelope[t].session_id})
    /\ Goto(t, "record")
    /\ UNCHANGED <<sessions, mono, now, envelope, reply, cleanups, saw>>

(* mutant: a session that is opened again keeps the cache it had *)
hello_cache_kept(t) ==
    /\ pc[t] = "hello_cache"
    /\ message_cache' = [message_cache EXCEPT ![envelope[t].session_id] =
            IF @ = None THEN {} ELSE @]
    /\ Unlock(t)
    /\ Forget({envelope[t].session_id})
    /\ Goto(t, "record")
    /\ UNCHANGED <<sessions, mono, now, envelope, reply, cleanups, saw>>

hello_cache(t) ==
    /\ pc[t] = "hello_cache"
    /\ message_cache' = [message_cache EXCEPT ![envelope[t].session_id] = {}]
    /\ Unlock(t)
    /\ Forget({envelope[t].session_id})
    /\ Goto(t, "record")
    /\ UNCHANGED <<sessions, mono, now, envelope, reply, cleanups, saw>>

(* handle_tgp_message starts with a look whether the session exists.       *)
(* mutant: whether it has a cache *)
get_session_cached(t) ==
    /\ pc[t] = "get_session"
    /\ guard = None
    /\ IF message_cache[envelope[t].session_id] # None
       THEN Goto(t, "touch_now") /\ UNCHANGED reply
       ELSE Answer(t, "error")
    /\ UNCHANGED <<table, mono, now, envelope, cleanups, history>>

get_session(t) ==
    /\ pc[t] = "get_session"
    /\ guard = None
    /\ IF sessions[envelope[t].session_id] # None
       THEN Goto(t, "touch_now") /\ UNCHANGED reply
       ELSE Answer(t, "error")
    /\ UNCHANGED <<table, mono, now, envelope, cleanups, history>>

(* touch_session, for HEARTBEAT and TGP; again the clock is read first.    *)
touch_now(t) ==
    /\ pc[t] = "touch_now"
    /\ ReadClock(t)
    /\ Goto(t, "touch")
    /\ UNCHANGED <<table, mono, envelope, reply, cleanups, history>>

(* A heartbeat for a session that is gone is an error; a TGP message goes  *)
(* on as if nothing had happened (let _ = ...).                            *)
touch(t) ==
    LET s == envelope[t].session_id IN
    /\ pc[t] = "touch"
    /\ guard = None
    /\ \/ /\ sessions[s] # None
          /\ sessions' = [sessions EXCEPT ![s].last_activity_mono = now[t]]
          /\ Goto(t, "record")
          /\ UNCHANGED reply
       \/ /\ sessions[s] = None
          /\ IF envelope[t].kind = "TGP"
             THEN Goto(t, "record") /\ UNCHANGED reply
             ELSE Answer(t, "error")
          /\ UNCHANGED sessions
    /\ Forgotten(t)
    /\ UNCHANGED <<message_cache, guard, mono, envelope, cleanups, history>>

(* record_message, and the reply: a TGP message is handed to the TGP layer *)
(* right after it was recorded.                                            *)
record_message(t) ==
    LET e == envelope[t] IN
    /\ pc[t] = "record"
    /\ message_cache' = [message_cache EXCEPT ![e.session_id] = Recorded(@, e.msg_id)]
    /\ kept' = [kept EXCEPT ![t] = TRUE]
    /\ Answer(t, CASE e.kind = "TGP" -> "processed"
                   [] e.kind = "HEARTBEAT" -> "accepted"
                   [] OTHER -> "welcome")
    /\ UNCHANGED <<sessions, guard, mono, now, envelope, cleanups, saw, replay>>

-----------------------------------------------------------------------------
close_session(t) ==
    /\ pc[t] = "close"
    /\ Lock(t)
    /\ sessions' = [sessions EXCEPT ![envelope[t].session_id] = None]
    /\ Goto(t, "close_cache")
    /\ UNCHANGED <<message_cache, mono, now, envelope, reply, cleanups, history>>

close_cache(t) ==
    /\ pc[t] = "close_cache"
    /\ message_cache' = [message_cache EXCEPT ![envelope[t].session_id] = None]
    /\ Unlock(t)
    /\ Forget({envelope[t].session_id})
    /\ Answer(t, "closed")
    /\ UNCHANGED <<sessions, mono, now, envelope, cleanups, saw>>

cleanup_now ==
    /\ pc[Cleaner] = "idle"
    /\ cleanups < MaxCleanups
    /\ cleanups' = cleanups + 1
    /\ ReadClock(Cleaner)
    /\ Goto(Cleaner, "cleanup")
    /\ UNCHANGED <<table, mono, envelope, reply, history>>

(* mutant: the age of a session as an unsigned difference, which wraps     *)
(* around (at 16 bits here instead of 64)                                  *)
is_timed_out_by_age(last, current) == (current - last) % 2^16 > Timeout

is_timed_out(last, current) == current > last + Timeout

cleanup_expired ==
    /\ pc[Cleaner] = "cleanup"
    /\ Lock(Cleaner)
    /\ sessions' = [s \in SessionIds |->
            IF sessions[s] # None
                 /\ is_timed_out(sessions[s].last_activity_mono, now[Cleaner])
            THEN None ELSE sessions[s]]
    /\ Forgotten(Cleaner)
    /\ Goto(Cleaner, "cleanup_cache")
    /\ UNCHANGED <<message_cache, mono, envelope, reply, cleanups, history>>

(* mutant: a cache nothing was recorded in is dropped too *)
Inactive_or_empty == {s \in SessionIds : sessions[s] = None \/ message_cache[s] = {}}

Inactive == {s \in SessionIds : sessions[s] = None}

cleanup_cache ==
    /\ pc[Cleaner] = "cleanup_cache"
    /\ message_cache' = [s \in SessionIds |->
            IF s \in Inactive THEN None ELSE message_cache[s]]
    /\ Unlock(Cleaner)
    /\ Forget(Inactive)
    /\ Goto(Cleaner, "idle")
    /\ UNCHANGED <<sessions, mono, now, envelope, reply, cleanups, saw>>

-----------------------------------------------------------------------------
Handle(t) ==
    \/ handle_txip_message(t)
    \/ hello_now(t) \/ hello_store(t) \/ hello_cache(t)
    \/ get_session(t) \/ touch_now(t) \/ touch(t) \/ record_message(t)
    \/ close_session(t) \/ close_cache(t)

Clean == cleanup_now \/ cleanup_expired \/ cleanup_cache

Next ==
    \/ Tick
    \/ \E t \in Handlers, e \in Envelopes : Receive(t, e)
    \/ \E t \in Handlers : Handle(t)
    \/ Clean

Spec == Init /\ [][Next]_vars

(* The runtime keeps scheduling every task that can run. *)
FairSpec ==
    /\ Spec
    /\ \A t \in Handlers : WF_vars(Handle(t))
    /\ WF_vars(cleanup_expired \/ cleanup_cache)

-----------------------------------------------------------------------------
(* Every variable has its type, and no instant was read that has not come. *)
TypeOK ==
    /\ sessions \in [SessionIds -> SessionInfo \cup {None}]
    /\ \A s \in SessionIds : sessions[s] # None =>
            sessions[s].created_mono <= mono /\ sessions[s].last_activity_mono <= mono
    /\ message_cache \in [SessionIds -> {None} \cup SUBSET MsgIds]
    /\ guard \in Tasks \cup {None}
    /\ mono \in Nat /\ cleanups \in Nat
    /\ pc \in [Tasks -> Labels]
    /\ now \in [Tasks -> 0..mono]
    /\ envelope \in [Handlers -> Envelopes \cup {None}]
    /\ reply \in [Handlers -> Replies \cup {None}]
    /\ saw \in [Handlers -> BOOLEAN]
    /\ kept \in [Handlers -> BOOLEAN] /\ replay \in [Handlers -> BOOLEAN]

(* Whoever can look at the session table finds with every session the      *)
(* cache HELLO gave it: no interleaving of HELLO, CLOSE, cleanup and       *)
(* record_message leaves a session without one.                            *)
SessionHasCache == guard = None =>
    \A s \in SessionIds : sessions[s] # None => message_cache[s] # None

(* Nothing is taken for a duplicate that was not served: every id in a     *)
(* cache, also in one that is left without a session when a message is     *)
(* recorded after another request closed its session, was recorded for a   *)
(* request whose session existed while it was handled, and since then the  *)
(* session was neither opened anew nor closed.                             *)
CachedIdsWereServed == \A s \in SessionIds : message_cache[s] # None =>
    \A m \in message_cache[s] : \E t \in Handlers :
        kept[t] /\ saw[t] /\ Concerns(t, s) /\ envelope[t].msg_id = m

(* A request that repeats one the server has already recorded is never     *)
(* processed, nor does it open, revive or touch the session, as long as    *)
(* the session was not opened anew or removed meanwhile.                   *)
ReplaysAreDropped == \A t \in Handlers :
    replay[t] => /\ pc[t] \in {"check", "done"}
                 /\ reply[t] \in {None, "duplicate", "error"}

(* A TGP message is only processed if its session existed at some instant  *)
(* while the request was handled.                                          *)
ServedInSession == \A t \in Handlers : reply[t] = "processed" => saw[t]

(* s is removed from the table by cleanup_expired. *)
Expired(s) ==
    /\ pc[Cleaner] = "cleanup" /\ guard' = Cleaner
    /\ sessions[s] # None /\ sessions'[s] = None

ExpiredWereIdle == \A s \in SessionIds :
    Expired(s) => mono > sessions[s].last_activity_mono + Timeout

(* cleanup_expired only removes sessions that are idle for longer than the *)
(* timeout, although the instant it judges by may be older than the        *)
(* session.                                                                *)
OnlyIdleSessionsExpire == [][ExpiredWereIdle]_vars

(* Every request is answered: no request waits for a lock for ever. *)
EveryRequestAnswered == \A t \in Handlers : pc[t] = "check" ~> pc[t] = "done"

-----------------------------------------------------------------------------
(* "Servers MUST treat duplicate msg_id as idempotent (no double           *)
(* processing)" (docs/specs/TxIP-00.md:356).                               *)
ProcessedOnce == \A t, u \in Handlers :
    reply[t] = "processed" /\ reply[u] = "processed" /\ envelope[t] = envelope[u] => t = u
=============================================================================

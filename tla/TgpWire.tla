------------------------------- MODULE TgpWire --------------------------------
(***************************************************************************)
(* A TGP message on its way: composed by the constructors and builders of  *)
(* the crate tbc-core, put into a TxIP envelope, written to JSON, read     *)
(* again some time later, validated by both implementations of the         *)
(* messages and answered by the HTTP handler of a TBC.  Control and error  *)
(* messages of the TxIP layer travel the same way, and so does the answer. *)
(* Composing, sending and answering take no time.                          *)
(***************************************************************************)
EXTENDS TxipHandler

CONSTANTS
    AmountSpace,   \* 2^64
    Triples,       \* three texts of a message at a time
    Amounts,       \* amounts of a QUERY or an OFFER
    Addresses,     \* contract addresses, well-formed or not
    Hashes,        \* transaction hashes, well-formed or not
    Fees,          \* max_fees_bps
    Expiries,      \* expiries of an OFFER
    Heads,         \* of an envelope, <<msg_id, session_id, text of the timestamp>>;
                   \* the local time of the text is replaced by that of the sender's clock
    Hellos,        \* of a HELLO, <<versions, chains, token>>
    MaxNow         \* bound: the last instant

ASSUME AmountAssumption == AmountSpace \in Nat \ {0} /\ Amounts \subseteq 0..(AmountSpace - 1)
ASSUME EnvelopeAssumption == Fees \subseteq Nat /\ Expiries \subseteq Timestamp
ASSUME HelloAssumption == \A h \in Hellos : [versions |-> h[1], chains |-> h[2]] # None
ASSUME ClockAssumption == MaxNow \in Nat \ {0}

VARIABLES
    now,        \* the clock, monotonic and Unix
    message,    \* the TGP message being composed, or None
    sent,       \* the envelope sent, or None
    wire,       \* its JSON text, or None
    received,   \* what the receiver read, or None
    tables,     \* what the TBC's tables hold for the session
    answer      \* how the TBC answered: the request, the tables before it, and the
                \* HTTP status; or None

vars == <<now, message, sent, wire, received, tables, answer>>
tbc == <<tables, answer>>

M == INSTANCE TgpMessages
P == INSTANCE Protocol
Tx == INSTANCE TxProvenance

(* The ids that can have been recorded *)
MsgIds == {head[1] : head \in Heads} \ {""}

Init ==
    /\ now = 1
    /\ message = None /\ sent = None /\ wire = None /\ received = None
    \* By what was sent before; also an id without a session, which a message
    \* that is recorded after another request closed its session leaves.
    /\ tables \in {Tables(open, cache) : open \in BOOLEAN, cache \in SUBSET MsgIds}
    /\ answer = None

Idle == wire = None /\ answer = None
Compose(m) == message' = m /\ UNCHANGED <<now, sent, wire, received, tbc>>

(* Either implementation composes the message. *)
Query ==
    /\ message = None /\ Idle
    /\ \E id \in {"", "q-1"}, t \in Triples, amount \in Amounts, profile \in M!ZkProfile :
        \/ \E m \in {M!QueryNew(id, t[1], t[2], t[3], amount, profile),
                     P!QueryNew(id, t[1], t[2], t[3], amount, profile)} : Compose(m)
        \/ \E contract \in Addresses :
               Compose(M!QueryWithEscrow(id, t[1], t[2], t[3], amount, contract, profile))

Envelopes ==
    {M!EnvelopeNew(fee) : fee \in Fees} \cup {P!EnvelopeNew(fee) : fee \in Fees}
    \cup {M!EnvelopeWithExpiry(fee, e) : fee \in Fees, e \in Expiries}
    \cup {P!EnvelopeWithExpiry(fee, e) : fee \in Fees, e \in Expiries}

Offer ==
    /\ message = None /\ Idle
    /\ \E t \in Triples, amount \in Amounts, e \in Envelopes :
        \E m \in {M!OfferNew(t[1], t[2], t[3], amount, TRUE, e),
                  P!OfferNew(t[1], t[2], t[3], amount, TRUE, e)} : Compose(m)

Settle ==
    /\ message = None /\ Idle
    /\ \E t \in Triples, success \in BOOLEAN, source \in M!SettleSource :
        \E m \in {M!SettleNew(t[1], t[2], success, source),
                  P!SettleNew(t[1], t[2], success, source)} : Compose(m)

Error ==
    /\ message = None /\ Idle
    /\ \E t \in Triples :
        \/ \E m \in {M!ErrorNew(t[1], t[2], t[3]), P!ErrorNew(t[1], t[2], t[3])} : Compose(m)
        \/ \E m \in {M!ErrorWithCorrelation(t[1], t[2], t[3], "q-1"),
                     P!ErrorWithCorrelation(t[1], t[2], t[3], "q-1")} : Compose(m)

Build ==
    /\ message # None /\ wire = None
    /\ \/ \E contract \in Addresses :
              message.phase = "OFFER" /\ message' = M!WithCoreprover(message, contract)
       \/ \E tx \in Hashes : message.phase = "SETTLE" /\ message' = M!WithTx(message, tx)
       \/ message.phase \in {"OFFER", "SETTLE"} /\ message' = M!WithSession(message, "s-1")
    /\ UNCHANGED <<now, sent, wire, received, tbc>>

(* The timestamp the sender's provider returns *)
Clock(iso) == TripleTimestamp(now, now, [iso EXCEPT !.local = now])

Put(envelope) ==
    /\ Idle
    /\ sent' = envelope
    /\ wire' = to_string(envelope)
    /\ UNCHANGED <<now, message, received, tbc>>

SendTgp ==
    /\ message # None
    /\ \E head \in Heads, traced \in BOOLEAN :
        LET phase == IF message.phase \in TgpPhase THEN message.phase ELSE "NONE"
            e == tgp(head[1], head[2], "CLIENT_TO_TBC", "BUYER_AGENT", phase, Clock(head[3]),
                     M!to_value(message))
        IN  Put(IF traced THEN with_tgp_type(with_origin_chain(e, 369), "tgp.escrow.created")
                ELSE e)

(* The type of the message is an argument like any other. *)
SendControl ==
    /\ message = None
    /\ \E head \in Heads, type \in MessageType :
        LET Send(payload) == Put(new(head[1], head[2], "CLIENT_TO_TBC", "SELLER_AGENT", type, "NONE",
                                     Clock(head[3]), payload))
        IN  \/ \E h \in Hellos, scheme \in AuthScheme :
                  Send([kind |-> "CONTROL", control_type |-> "HELLO", agent_id |-> "agent",
                        supported_tgp_versions |-> h[1], supported_transports |-> {"HTTP"},
                        supported_chains |-> h[2], supported_assets |-> {"USDC"},
                        features |-> {"zk"}, auth |-> [scheme |-> scheme, token |-> h[3]]])
            \/ Send([kind |-> "CONTROL", control_type |-> "HEARTBEAT", seq |-> 0])
            \/ \E reason \in CloseReason :
                  Send([kind |-> "CONTROL", control_type |-> "CLOSE", reason |-> reason])

SendError ==
    /\ message = None
    /\ \E head \in Heads, related \in {None, "m-0"}, retryable \in BOOLEAN, code \in ErrorCode :
        Put(error(head[1], head[2], "TBC_TO_TBC", code, 400, related, "details", retryable,
                  Clock(head[3])))

SendWelcome ==
    /\ message = None
    /\ \E head \in Heads :
        Put(welcome(head[1], head[2], "tbc", "2.0", {1, 369}, {"zk"}, 30, Clock(head[3])))

Receive ==
    /\ wire # None /\ received = None
    /\ LET e == from_str(wire)
           isTgp == EnvelopeFits(wire) /\ e.payload.kind = "TGP"
       IN  received' = [envelope |-> e,
                        message |-> IF isTgp THEN M!from_value(e.payload.tgp) ELSE None,
                        other |-> IF isTgp THEN P!from_value(e.payload.tgp) ELSE None]
    /\ UNCHANGED <<now, message, sent, wire, tbc>>

(* What a HELLO offers *)
Offered(e) ==
    IF e.payload.kind = "CONTROL" /\ e.payload.control_type = "HELLO"
    THEN [versions |-> e.payload.supported_tgp_versions, chains |-> e.payload.supported_chains]
    ELSE None

(* The TBC's provider writes UTC with Z, as those of the tests do. *)
UtcText == [T |-> TRUE, hyphens |-> 2, local |-> 0, tail |-> "Z", offset |-> 0]

(* The TBC answers what it has read; an envelope in the answer is sent     *)
(* back.                                                                   *)
Answer ==
    /\ received # None /\ answer = None
    /\ LET e == received.envelope
           r == handle_txip_message(e, tables, 30, Clock(UtcText))
       IN  /\ answer' = [msg_id |-> e.msg_id, session_id |-> e.session_id, iso |-> e.timestamp_iso,
                         kind |-> IF e.message_type = e.payload.kind THEN e.payload.kind ELSE None,
                         control |-> IF e.payload.kind = "CONTROL" THEN e.payload.control_type
                                     ELSE None,
                         hello |-> Offered(e), before |-> tables, status |-> r.status]
           /\ tables' = r.tables
           /\ sent' = r.envelope
           /\ wire' = IF r.envelope = None THEN None ELSE to_string(r.envelope)
    /\ message' = None /\ received' = None
    /\ UNCHANGED now

Tick ==
    /\ wire # None /\ now < MaxNow /\ answer = None
    /\ now' = now + 1
    /\ UNCHANGED <<message, sent, wire, received, tbc>>

Next ==
    \/ Query \/ Offer \/ Settle \/ Error \/ Build
    \/ SendTgp \/ SendControl \/ SendError \/ SendWelcome
    \/ Receive \/ Answer \/ Tick

Spec == Init /\ [][Next]_vars

-----------------------------------------------------------------------------
(* The message, the envelope and what was read have the shape of their     *)
(* structs.                                                                *)
MessageOK(m) == m.phase \in DOMAIN M!TGPMessage
    /\ DOMAIN m = {"phase"} \cup M!TGPMessage[m.phase][1] \cup M!TGPMessage[m.phase][2]
EnvelopeOK(e) ==
    /\ DOMAIN e = EnvelopeFields \cup EnvelopeOptions
    /\ e.direction \in Direction /\ e.role \in Role
    /\ e.message_type \in MessageType /\ e.tgp_phase \in TgpPhase
    /\ e.payload.kind \in MessageType
    /\ e.payload.kind = "ERROR" => e.payload.error_code \in ErrorCode
TypeOK ==
    /\ now \in 1..MaxNow
    /\ message # None => MessageOK(message)
    /\ sent # None => EnvelopeOK(sent)
    /\ received # None =>
        /\ EnvelopeOK(received.envelope)
        /\ \A m \in {received.message, received.other} : m # None => MessageOK(m)
    /\ tables.open \in BOOLEAN /\ DOMAIN tables = {"open", "cache"}
    /\ answer # None => answer.status \in {200, 400, 401, 500}

(* Nothing is lost or changed between the two ends, whatever Options are   *)
(* set and although the kind of the payload is not written: the receiver   *)
(* reads the envelope and the message that were sent, with either          *)
(* implementation.                                                         *)
RoundTrip == received # None =>
    received = [envelope |-> sent, message |-> message, other |-> message]

(* The handler's answers fit: what the constructors make, with names and a *)
(* timestamp in UTC, is never called invalid, but for a WELCOME, which     *)
(* clients do not send.  A message whose id is in the cache changes        *)
(* nothing and gets no envelope; a TGP message is accepted only in a       *)
(* session or, without one, as such a repetition; an id that was accepted  *)
(* is remembered in an open session, but for a repetition, which leaves    *)
(* things as they are, a CLOSE and an ERROR.  The client finds every       *)
(* envelope in an answer valid, as long as its own named a session, and    *)
(* can tell from it which message it answers; a WELCOME is for a HELLO and *)
(* agrees to a version and chains it offered.                              *)
AnswersFit == answer # None =>
    LET accepted == answer.status = 200
        repeated == answer.msg_id \in answer.before.cache
    IN
    /\ /\ ~ is_empty(answer.msg_id) /\ ~ is_empty(answer.session_id)
       /\ answer.iso.T /\ answer.iso.tail = "Z"
       /\ answer.kind # None /\ answer.control # "WELCOME"
       => answer.status # 400
    /\ accepted /\ repeated => tables = answer.before /\ sent = None
    /\ accepted /\ answer.kind = "TGP" => answer.before.open \/ repeated
    /\ accepted /\ (answer.kind = "TGP" \/ (answer.kind = "CONTROL" /\ answer.control # "CLOSE")) =>
            answer.msg_id \in tables.cache /\ (tables.open \/ repeated)
    /\ received # None =>
        LET e == received.envelope IN
        /\ validate(e) <=> ~ is_empty(answer.session_id)
        /\ e.session_id = answer.session_id
        /\ e.payload.kind = "ERROR" =>
                e.payload.http_status = answer.status /\ e.payload.related_msg_id = answer.msg_id
        /\ e.payload.kind # "ERROR" =>
            /\ accepted /\ tables.open /\ answer.hello # None
            /\ e.payload.negotiated_tgp_version \in answer.hello.versions
            /\ e.payload.negotiated_chains # {}
            /\ e.payload.negotiated_chains \subseteq answer.hello.chains

(* The two implementations accept the same messages, but that protocol.rs  *)
(* does not look at the digits of a hash and wants an expiry in UTC; and   *)
(* the transaction of a SETTLE that tgp accepts is one TxIP can refer to.  *)
NotHex(m) == \E f \in {"escrow_contract_from_402", "coreprover_contract", "layer8_tx"} \cap DOMAIN m :
    m[f] # None /\ ~ m[f].hex
NotUtc(m) ==
    m.phase = "OFFER" /\ m.economic_envelope.expiry # None /\ m.economic_envelope.expiry.tail # "Z"
ImplementationsAgree == received # None /\ received.message \notin {None, Rejected} =>
    LET m == received.message
        p == received.other
    IN  /\ M!validate(m) /\ ~ NotUtc(m) => P!validate(p)
        /\ P!validate(p) /\ ~ NotHex(p) => M!validate(m)
        /\ M!validate(m) /\ m.phase = "SETTLE" /\ m.layer8_tx # None => Tx!validate_txid(m.layer8_tx)

(* An OFFER that tgp accepts: its fee is never more than the amount, also  *)
(* where amounts end; and comparing the text of its expiry with that of a  *)
(* clock in UTC, otherwise written alike, tells rightly whether it has     *)
(* passed, except between the instant the expiry names and the moment at   *)
(* which a clock in UTC shows the same time of day.  In UTC, whichever way *)
(* (Z or, as the engine does, +00:00) the two are written, it is right at  *)
(* any instant, but for one case: an expiry in +00:00 has passed at that   *)
(* very second for a clock in Z.  An expiry without a zone, which tgp      *)
(* accepts too, is taken for UTC.                                          *)
Instant(t) == CASE t.tail = "+" -> t.local - t.offset
                [] t.tail = "-" -> t.local + t.offset
                [] t.tail \in {"Z", ""} -> t.local
InUtc(t) == t.tail = "Z" \/ (t.tail = "+" /\ t.offset = 0)
ExpiryTells(e, t) == \A z \in {"Z", "+"} :
    LET clock == [e.expiry EXCEPT !.local = t, !.tail = z, !.offset = 0]
        expired == M!is_expired(e, clock)
    IN  /\ t < e.expiry.local /\ t < Instant(e.expiry) => ~ expired
        /\ t > e.expiry.local /\ t > Instant(e.expiry) => expired
        /\ InUtc(e.expiry) =>
                (expired <=> \/ t > e.expiry.local
                             \/ t = e.expiry.local /\ z = "Z" /\ e.expiry.tail = "+")
OfferTermsHold ==
    received # None /\ received.message # None /\ received.message.phase = "OFFER" =>
        LET m == received.message
            e == m.economic_envelope
        IN  M!validate(m) =>
                /\ M!calculate_max_fee(e, m.amount) <= m.amount
                /\ e.expiry # None => ExpiryTells(e, now)

(* What the comment at timestamp_types_v03.rs:41 and the test at line 182  *)
(* say: a timestamp without a timezone is refused.                         *)
AcceptedHasTimezone == received # None =>
    (validate(received.envelope) => received.envelope.timestamp_iso.tail # "")
=============================================================================

---------------------------- MODULE TxipEnvelopes -----------------------------
(***************************************************************************)
(* The TxIP envelope: constructors, validation and encoding                *)
(* (crates/txip/txip_types_v03.rs).  A payload is a record with the field  *)
(* kind for the variant of the untagged enum Payload; the kind is not      *)
(* written to JSON but found again from the keys.                          *)
(***************************************************************************)
EXTENDS TripleClock

TXIP_VERSION == "0.2"

Direction == {"CLIENT_TO_TBC", "TBC_TO_CLIENT", "TBC_TO_TBC"}
Role == {"BUYER_AGENT", "SELLER_AGENT", "TBC", "WATCHER"}
MessageType == {"CONTROL", "TGP", "ERROR"}
TgpPhase == {"QUERY", "OFFER", "SETTLE", "EVENT", "NONE"}
AuthScheme == {"BEARER_JWT", "API_KEY", "MTLS", "NONE"}
CloseReason == {"idle_timeout", "client_shutdown", "protocol_error", "other"}
ErrorCode == {"TXIP_INVALID_ENVELOPE", "TXIP_UNSUPPORTED_VERSION", "TXIP_UNAUTHENTICATED",
              "TXIP_UNAUTHORIZED", "TXIP_INTERNAL_ERROR", "TXIP_RATE_LIMITED",
              "TXIP_UPSTREAM_UNAVAILABLE", "TXIP_MALFORMED_TGP_PAYLOAD"}

EnvelopeFields == {"txip_version", "msg_id", "session_id", "direction", "role",
    "timestamp_mono", "timestamp_unix", "timestamp_iso", "message_type", "tgp_phase", "payload"}
EnvelopeOptions == {"tgp_type", "origin_chain_id"}

(* Fields of the payloads *)
HelloPayload == {"agent_id", "supported_tgp_versions", "supported_transports",
                 "supported_chains", "supported_assets", "features", "auth"}
WelcomePayload == {"tbc_id", "session_id", "negotiated_tgp_version", "negotiated_chains",
                   "negotiated_features", "heartbeat_interval_sec"}
ControlPayload == [HELLO |-> HelloPayload, WELCOME |-> WelcomePayload,
                   HEARTBEAT |-> {"seq"}, CLOSE |-> {"reason"}]
AuthInfo == <<{"scheme"}, {"token"}>>   \* and the Option
ErrorPayload == {"error_code", "http_status", "details", "retryable"}
ErrorOptions == {"related_msg_id"}

-----------------------------------------------------------------------------
new(msg_id, session_id, direction, role, message_type, tgp_phase, ts, payload) ==
    [txip_version |-> TXIP_VERSION, msg_id |-> msg_id, session_id |-> session_id,
     direction |-> direction, role |-> role, timestamp_mono |-> ts.mono,
     timestamp_unix |-> ts.unix, timestamp_iso |-> ts.iso, message_type |-> message_type,
     tgp_phase |-> tgp_phase, tgp_type |-> None, origin_chain_id |-> None,
     payload |-> payload]

tgp(msg_id, session_id, direction, role, tgp_phase, ts, value) ==
    new(msg_id, session_id, direction, role, "TGP", tgp_phase, ts, [kind |-> "TGP", tgp |-> value])

(* mutant: the phase of an error is a phase TxIP does not have *)
error_in_phase(msg_id, session_id, direction, code, status, related, details, retryable, ts) ==
    new(msg_id, session_id, direction, "TBC", "ERROR", "ERROR", ts,
        [kind |-> "ERROR", error_code |-> code, http_status |-> status,
         related_msg_id |-> related, details |-> details, retryable |-> retryable])

error(msg_id, session_id, direction, code, status, related, details, retryable, ts) ==
    new(msg_id, session_id, direction, "TBC", "ERROR", "NONE", ts,
        [kind |-> "ERROR", error_code |-> code, http_status |-> status,
         related_msg_id |-> related, details |-> details, retryable |-> retryable])

welcome(msg_id, session_id, tbc_id, version, chains, features, interval, ts) ==
    new(msg_id, session_id, "TBC_TO_CLIENT", "TBC", "CONTROL", "NONE", ts,
        [kind |-> "CONTROL", control_type |-> "WELCOME", tbc_id |-> tbc_id,
         session_id |-> session_id, negotiated_tgp_version |-> version,
         negotiated_chains |-> chains, negotiated_features |-> features,
         heartbeat_interval_sec |-> interval])

with_origin_chain(envelope, chain_id) == [envelope EXCEPT !.origin_chain_id = chain_id]
with_tgp_type(envelope, tgp_type) == [envelope EXCEPT !.tgp_type = tgp_type]

timestamp(envelope) ==
    TripleTimestamp(envelope.timestamp_mono, envelope.timestamp_unix, envelope.timestamp_iso)

validate(envelope) ==
    /\ envelope.txip_version = TXIP_VERSION
    /\ ~ is_empty(envelope.msg_id) /\ ~ is_empty(envelope.session_id)
    /\ validate_iso(timestamp(envelope))
    /\ envelope.message_type = envelope.payload.kind

-----------------------------------------------------------------------------
payload_to_value(payload) ==
    LET object == ToObject(payload, ErrorOptions) IN
    [f \in DOMAIN object \ {"kind"} |->
        IF f = "auth" THEN ToObject(object.auth, AuthInfo[2]) ELSE object[f]]

(* The first variant that fits, in the order of the enum *)
ControlFits(object) ==
    /\ Fits(object, {"control_type"}) /\ object.control_type \in DOMAIN ControlPayload
    /\ Fits(object, ControlPayload[object.control_type])
    /\ object.control_type = "HELLO" => Fits(object.auth, AuthInfo[1])

PayloadFits(object) ==
    ControlFits(object) \/ Fits(object, {"tgp"}) \/ Fits(object, ErrorPayload)

payload_from_value(object) ==
    LET Named(kind, p) == [f \in DOMAIN p \cup {"kind"} |-> IF f = "kind" THEN kind ELSE p[f]]
        control == FromObject(object, {"control_type"} \cup ControlPayload[object.control_type], {})
    IN  IF ControlFits(object)
        THEN Named("CONTROL", IF object.control_type # "HELLO" THEN control
                              ELSE [control EXCEPT !.auth = FromObject(@, AuthInfo[1], AuthInfo[2])])
        ELSE IF Fits(object, {"tgp"}) THEN Named("TGP", FromObject(object, {"tgp"}, {}))
        ELSE Named("ERROR", FromObject(object, ErrorPayload, ErrorOptions))

(* mutant: the chain is never written (skip_serializing for skip_serializing_if) *)
to_string_no_chain(envelope) ==
    ToObject([envelope EXCEPT !.payload = payload_to_value(@), !.origin_chain_id = None],
             EnvelopeOptions)

to_string(envelope) ==
    ToObject([envelope EXCEPT !.payload = payload_to_value(@)], EnvelopeOptions)

EnvelopeFits(object) == Fits(object, EnvelopeFields) /\ PayloadFits(object.payload)

from_str(object) ==
    IF ~ EnvelopeFits(object) THEN Rejected
    ELSE [FromObject(object, EnvelopeFields, EnvelopeOptions)
              EXCEPT !.payload = payload_from_value(@)]
=============================================================================

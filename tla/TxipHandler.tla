----------------------------- MODULE TxipHandler ------------------------------
(***************************************************************************)
(* What the HTTP handler answers to an envelope                            *)
(* (crates/txip/txip_http_handler_v03.rs, and what it calls of             *)
(* txip_session_v03.rs), as a function of the envelope, of what the two    *)
(* tables hold for its session, and of the provider's timestamp: handled   *)
(* with no other request in between.  The interleavings of the steps in    *)
(* which the tables change are those of TxipSessions.                      *)
(***************************************************************************)
EXTENDS TxipEnvelopes

TbcId == "tbc"
MsgId == "err-1"   \* generate_msg_id

(* What the tables hold for one session: whether it is open, and the ids   *)
(* in its message cache (none without a cache).                            *)
Tables(open, cache) == [open |-> open, cache |-> cache]

is_duplicate_message(tables, msg_id) == msg_id \in tables.cache
record_message(tables, msg_id) == Tables(tables.open, tables.cache \cup {msg_id})

(* An HTTP response: its body is an envelope, or a note that names the     *)
(* message, or nothing; and the tables it leaves.                          *)
Response(status, envelope, tables) ==
    [status |-> status, envelope |-> envelope, tables |-> tables]

accepted_response(tables) == Response(200, None, tables)

error_response(e, code, status, retryable, tables, ts) ==
    Response(status, error(MsgId, e.session_id, "TBC_TO_CLIENT", code, status, e.msg_id,
                           "details", retryable, ts), tables)

-----------------------------------------------------------------------------
negotiate_tgp_version(supported) == IF "2.0" \in supported THEN "2.0" ELSE None
negotiate_chains(supported) == IF supported = {} THEN None ELSE supported

(* A new session starts with an empty cache. *)
handle_hello(e, tables, interval, ts) ==
    LET hello == e.payload
        version == negotiate_tgp_version(hello.supported_tgp_versions)
        chains == negotiate_chains(hello.supported_chains)
    IN  IF None \in {version, chains}
        THEN error_response(e, "TXIP_INTERNAL_ERROR", 500, TRUE, tables, ts)
        ELSE Response(200, welcome(MsgId, e.session_id, TbcId, version, chains, hello.features,
                                   interval, ts),
                      record_message(Tables(TRUE, {}), e.msg_id))

handle_heartbeat(e, tables, ts) ==
    IF tables.open THEN accepted_response(record_message(tables, e.msg_id))
    ELSE error_response(e, "TXIP_INTERNAL_ERROR", 500, TRUE, tables, ts)

handle_close == Response(200, None, Tables(FALSE, {}))

handle_control_message(e, tables, interval, ts) ==
    CASE e.payload.control_type = "HELLO" -> handle_hello(e, tables, interval, ts)
      [] e.payload.control_type = "HEARTBEAT" -> handle_heartbeat(e, tables, ts)
      [] e.payload.control_type = "CLOSE" -> handle_close
      [] e.payload.control_type = "WELCOME" ->
            error_response(e, "TXIP_INVALID_ENVELOPE", 400, FALSE, tables, ts)

handle_tgp_message(e, tables, ts) ==
    IF tables.open THEN accepted_response(record_message(tables, e.msg_id))
    ELSE error_response(e, "TXIP_UNAUTHENTICATED", 401, FALSE, tables, ts)

(* The match on the message type *)
Route(e, tables, interval, ts) ==
    CASE e.message_type = "CONTROL" -> handle_control_message(e, tables, interval, ts)
      [] e.message_type = "TGP" -> handle_tgp_message(e, tables, ts)
      [] e.message_type = "ERROR" -> accepted_response(tables)

(* mutant: a repeated message is routed again *)
handle_txip_message_again(e, tables, interval, ts) ==
    IF validate(e) THEN Route(e, tables, interval, ts)
    ELSE error_response(e, "TXIP_INVALID_ENVELOPE", 400, FALSE, tables, ts)

handle_txip_message(e, tables, interval, ts) ==
    CASE ~ validate(e) -> error_response(e, "TXIP_INVALID_ENVELOPE", 400, FALSE, tables, ts)
      [] validate(e) /\ is_duplicate_message(tables, e.msg_id) -> accepted_response(tables)
      [] validate(e) /\ ~ is_duplicate_message(tables, e.msg_id) -> Route(e, tables, interval, ts)
=============================================================================

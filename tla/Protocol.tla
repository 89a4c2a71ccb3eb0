------------------------------- MODULE Protocol -------------------------------
(***************************************************************************)
(* The TGP messages of crates/tbc-core/src/protocol.rs, the crate's other  *)
(* implementation of the same messages: it has the same structs as         *)
(* TgpMessages and validation rules of its own.                            *)
(***************************************************************************)
EXTENDS SerdeJson

(* Of each struct the fields that have to be there and the Options. *)
QueryMessage ==
    <<{"id", "from", "to", "asset", "amount", "escrow_from_402", "zk_profile"},
      {"escrow_contract_from_402"}>>
OfferMessage ==
    <<{"id", "query_id", "asset", "amount", "zk_required", "economic_envelope"},
      {"coreprover_contract", "session_id"}>>
SettleMessage ==
    <<{"id", "query_or_offer_id", "success", "source"}, {"layer8_tx", "session_id"}>>
ErrorMessage == <<{"id", "code", "message"}, {"correlation_id"}>>

TGPMessage == [QUERY |-> QueryMessage, OFFER |-> OfferMessage,
               SETTLE |-> SettleMessage, ERROR |-> ErrorMessage]

-----------------------------------------------------------------------------
QueryNew(id, from, to, asset, amount, zk_profile) ==
    [phase |-> "QUERY", id |-> id, from |-> from, to |-> to, asset |-> asset,
     amount |-> amount, zk_profile |-> zk_profile,
     escrow_from_402 |-> FALSE, escrow_contract_from_402 |-> None]

OfferNew(id, query_id, asset, amount, zk_required, economic_envelope) ==
    [phase |-> "OFFER", id |-> id, query_id |-> query_id, asset |-> asset, amount |-> amount,
     zk_required |-> zk_required, economic_envelope |-> economic_envelope,
     coreprover_contract |-> None, session_id |-> None]

SettleNew(id, query_or_offer_id, success, source) ==
    [phase |-> "SETTLE", id |-> id, query_or_offer_id |-> query_or_offer_id,
     success |-> success, source |-> source, layer8_tx |-> None, session_id |-> None]

ErrorNew(id, code, text) ==
    [phase |-> "ERROR", id |-> id, code |-> code, message |-> text, correlation_id |-> None]

ErrorWithCorrelation(id, code, text, correlation_id) ==
    [phase |-> "ERROR", id |-> id, code |-> code, message |-> text,
     correlation_id |-> correlation_id]

EnvelopeNew(max_fees_bps) == [max_fees_bps |-> max_fees_bps, expiry |-> None]
EnvelopeWithExpiry(max_fees_bps, expiry) == [max_fees_bps |-> max_fees_bps, expiry |-> expiry]

-----------------------------------------------------------------------------
QueryValid(m) ==
    /\ \A f \in {"id", "from", "to", "asset"} : ~ is_empty(m[f])
    /\ m.amount # 0
    /\ LET contract == m.escrow_contract_from_402 IN
       contract # None => contract.ox /\ contract.len = 42

ExpiryInUtc(t) == t.T /\ t.tail = "Z"
EnvelopeValid(e) ==
    /\ e.max_fees_bps <= 10000
    /\ e.expiry # None => ExpiryInUtc(e.expiry)

OfferValid(m) ==
    /\ \A f \in {"id", "query_id", "asset"} : ~ is_empty(m[f])
    /\ m.amount # 0
    /\ m.coreprover_contract # None => m.coreprover_contract.ox /\ m.coreprover_contract.len = 42
    /\ EnvelopeValid(m.economic_envelope)

SettleValid(m) ==
    /\ \A f \in {"id", "query_or_offer_id"} : ~ is_empty(m[f])
    /\ m.layer8_tx # None => m.layer8_tx.ox /\ m.layer8_tx.len = 66

ErrorValid(m) == \A f \in {"id", "code", "message"} : ~ is_empty(m[f])

validate(m) ==
    CASE m.phase = "QUERY" -> QueryValid(m)
      [] m.phase = "OFFER" -> OfferValid(m)
      [] m.phase = "SETTLE" -> SettleValid(m)
      [] m.phase = "ERROR" -> ErrorValid(m)

-----------------------------------------------------------------------------
(* Decoding by the tag "phase"; an Option that is absent is None. *)
MessageFits(object) ==
    /\ Fits(object, {"phase"}) /\ object.phase \in DOMAIN TGPMessage
    /\ Fits(object, TGPMessage[object.phase][1])
    /\ object.phase = "OFFER" => Fits(object.economic_envelope, {"max_fees_bps"})

from_value(object) ==
    IF ~ MessageFits(object) THEN Rejected
    ELSE LET fields == TGPMessage[object.phase]
             m == FromObject(object, {"phase"} \cup fields[1], fields[2])
         IN  IF m.phase # "OFFER" THEN m
             ELSE [m EXCEPT !.economic_envelope = FromObject(@, {"max_fees_bps"}, {"expiry"})]
=============================================================================

----------------------------- MODULE TgpMessages ------------------------------
(***************************************************************************)
(* The TGP messages of crates/tbc-core/src/tgp/messages.rs: constructors,  *)
(* builders, validation and encoding.  A message is a record with the      *)
(* fields of its struct and the variant of TGPMessage as its phase.        *)
(***************************************************************************)
EXTENDS TgpFields

(* Of each struct the fields that have to be there and the Options. *)
QueryMessage ==
    <<{"id", "from", "to", "asset", "amount", "escrow_from_402", "zk_profile"},
      {"escrow_contract_from_402"}>>
OfferMessage ==
    <<{"id", "query_id", "asset", "amount", "zk_required", "economic_envelope"},
      {"coreprover_contract", "session_id"}>>
SettleMessage ==
    <<{"id", "query_or_offer_id", "success", "source"}, {"layer8_tx", "session_id"}>>
ErrorMessage == <<{"id", "code", "message"}, {"correlation_id"}>>

(* The struct of each variant of TGPMessage, by its tag "phase" *)
TGPMessage == [QUERY |-> QueryMessage, OFFER |-> OfferMessage,
               SETTLE |-> SettleMessage, ERROR |-> ErrorMessage]

-----------------------------------------------------------------------------
QueryNew(id, from, to, asset, amount, zk_profile) ==
    [phase |-> "QUERY", id |-> id, from |-> from, to |-> to, asset |-> asset,
     amount |-> amount, escrow_from_402 |-> FALSE, escrow_contract_from_402 |-> None,
     zk_profile |-> zk_profile]

QueryWithEscrow(id, from, to, asset, amount, contract, zk_profile) ==
    [QueryNew(id, from, to, asset, amount, zk_profile)
        EXCEPT !.escrow_from_402 = TRUE, !.escrow_contract_from_402 = contract]

OfferNew(id, query_id, asset, amount, zk_required, economic_envelope) ==
    [phase |-> "OFFER", id |-> id, query_id |-> query_id, asset |-> asset, amount |-> amount,
     coreprover_contract |-> None, session_id |-> None, zk_required |-> zk_required,
     economic_envelope |-> economic_envelope]

SettleNew(id, query_or_offer_id, success, source) ==
    [phase |-> "SETTLE", id |-> id, query_or_offer_id |-> query_or_offer_id,
     success |-> success, source |-> source, layer8_tx |-> None, session_id |-> None]

ErrorNew(id, code, text) ==
    [phase |-> "ERROR", id |-> id, code |-> code, message |-> text, correlation_id |-> None]

ErrorWithCorrelation(id, code, text, correlation_id) ==
    [ErrorNew(id, code, text) EXCEPT !.correlation_id = correlation_id]

(* Builders of an OFFER and of a SETTLE *)
WithCoreprover(offer, contract) == [offer EXCEPT !.coreprover_contract = contract]
WithTx(settle, tx) == [settle EXCEPT !.layer8_tx = tx]
WithSession(m, session_id) == [m EXCEPT !.session_id = session_id]

-----------------------------------------------------------------------------
QueryValid(m) ==
    /\ \A f \in {"id", "from", "to", "asset"} : validate_non_empty(m[f])
    /\ validate_positive_amount(m.amount)
    /\ m.escrow_contract_from_402 # None => validate_address(m.escrow_contract_from_402)

(* mutant: an OFFER without an amount *)
OfferValid_no_amount(m) ==
    /\ \A f \in {"id", "query_id", "asset"} : validate_non_empty(m[f])
    /\ m.coreprover_contract # None => validate_address(m.coreprover_contract)
    /\ EnvelopeValidate(m.economic_envelope)

OfferValid(m) ==
    /\ \A f \in {"id", "query_id", "asset"} : validate_non_empty(m[f])
    /\ validate_positive_amount(m.amount)
    /\ m.coreprover_contract # None => validate_address(m.coreprover_contract)
    /\ EnvelopeValidate(m.economic_envelope)

SettleValid(m) ==
    /\ \A f \in {"id", "query_or_offer_id"} : validate_non_empty(m[f])
    /\ m.layer8_tx # None => validate_transaction_hash(m.layer8_tx)

ErrorValid(m) == \A f \in {"id", "code", "message"} : validate_non_empty(m[f])

validate(m) ==
    CASE m.phase = "QUERY" -> QueryValid(m)
      [] m.phase = "OFFER" -> OfferValid(m)
      [] m.phase = "SETTLE" -> SettleValid(m)
      [] m.phase = "ERROR" -> ErrorValid(m)

-----------------------------------------------------------------------------
to_value(m) ==
    LET options == TGPMessage[m.phase][2] IN
    IF m.phase = "OFFER"
    THEN ToObject([m EXCEPT !.economic_envelope = ToObject(@, {"expiry"})], options)
    ELSE ToObject(m, options)

(* The tag names the struct; what a field holds is read in turn.           *)
MessageFits(object) ==
    /\ Fits(object, {"phase"}) /\ object.phase \in DOMAIN TGPMessage
    /\ Fits(object, TGPMessage[object.phase][1])
    /\ object.phase = "OFFER" => Fits(object.economic_envelope, {"max_fees_bps"})

from_value(object) ==
    IF ~ MessageFits(object) THEN Rejected
    ELSE LET fields == TGPMessage[object.phase]
             m == FromObject(object, {"phase"} \cup fields[1], fields[2])
         IN  IF m.phase # "OFFER" THEN m
             ELSE [m EXCEPT !.economic_envelope = FromObject(@, {"max_fees_bps"}, {"expiry"})]
=============================================================================

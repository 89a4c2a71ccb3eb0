------------------------------ MODULE TgpFields -------------------------------
(***************************************************************************)
(* The field types and validations of crates/tbc-core/src/tgp/types.rs and *)
(* crates/tbc-core/src/tgp/validation.rs.                                  *)
(***************************************************************************)
EXTENDS SerdeJson

CONSTANT AmountSpace   \* 2^64: an amount is a u64

ZkProfile == {"NONE", "OPTIONAL", "REQUIRED"}
SettleSource == {"buyer-notify", "controller-watcher", "coreprover-indexer"}
EconomicEnvelope == [max_fees_bps: Nat, expiry: Timestamp \cup {None}]

-----------------------------------------------------------------------------
validate_non_empty(text) == ~ is_empty(text)
validate_positive_amount(amount) == amount # 0

validate_address(address) == address.ox /\ address.len = 42 /\ address.hex
validate_transaction_hash(hash) == hash.ox /\ hash.len = 66 /\ hash.hex
validate_rfc3339_format(t) == t.T /\ (t.tail \in {"Z", "+"} \/ hyphen_count(t) > 2)

-----------------------------------------------------------------------------
(* EconomicEnvelope *)
EnvelopeNew(max_fees_bps) == [max_fees_bps |-> max_fees_bps, expiry |-> None]
EnvelopeWithExpiry(max_fees_bps, expiry) == [max_fees_bps |-> max_fees_bps, expiry |-> expiry]

ExpiryPlausible(t) == t.T /\ (t.tail \in {"Z", "+"} \/ contains_hyphen(t))
EnvelopeValidate(e) ==
    /\ e.max_fees_bps <= 10000
    /\ e.expiry # None => ExpiryPlausible(e.expiry)

(* The product is a u128, the quotient is cut to a u64. *)
calculate_max_fee(e, amount) == ((amount * e.max_fees_bps) \div 10000) % AmountSpace

(* mutant: expired at the expiry itself *)
is_expired_at(e, current) == e.expiry # None /\ ~ string_later(e.expiry, current)

is_expired(e, current) == e.expiry # None /\ string_later(current, e.expiry)
=============================================================================

---------------------------- MODULE TgpWireProofs -----------------------------
(***************************************************************************)
(* Theorems about TgpWire and their proofs: what two implementations of    *)
(* one protocol read and accept, for messages with any field values, and   *)
(* the fee of an accepted OFFER for any width of the amount.               *)
(***************************************************************************)
EXTENDS TgpWire, TLAPS

Phases == {"QUERY", "OFFER", "SETTLE", "ERROR"}

(* The fields of a message of each phase that validation looks at.         *)
Shape(m) ==
    /\ m.phase \in Phases
    /\ m.phase = "QUERY" => "escrow_contract_from_402" \in DOMAIN m
    /\ m.phase = "OFFER" => "coreprover_contract" \in DOMAIN m
    /\ m.phase = "SETTLE" => "layer8_tx" \in DOMAIN m

(* Both implementations read the same message. *)
ReadAlike == received # None =>
    /\ received.message = received.other
    /\ received.message \notin {None, Rejected} => Shape(received.message)

-----------------------------------------------------------------------------
(* Both implementations have the same structs. *)
LEMMA SameStructs == M!TGPMessage = P!TGPMessage /\ DOMAIN M!TGPMessage = Phases
  BY DEF M!TGPMessage, M!QueryMessage, M!OfferMessage, M!SettleMessage, M!ErrorMessage,
     P!TGPMessage, P!QueryMessage, P!OfferMessage, P!SettleMessage, P!ErrorMessage, Phases

(* Both decode any object alike. *)
LEMMA SameDecoding == ASSUME NEW object PROVE M!from_value(object) = P!from_value(object)
  BY SameStructs DEF M!from_value, P!from_value, M!MessageFits, P!MessageFits, M!Fits, P!Fits,
     M!FromObject, P!FromObject

(* What is decoded has the tag it was decoded by and the fields of its     *)
(* struct.                                                                 *)
LEMMA DecodedShape ==
    ASSUME NEW object, M!from_value(object) # Rejected PROVE Shape(M!from_value(object))
  <1> DEFINE fields == M!TGPMessage[object.phase]
             m == M!FromObject(object, {"phase"} \cup fields[1], fields[2])
             r == M!from_value(object)
  <1>1. "phase" \in DOMAIN object /\ object.phase \in Phases /\ M!MessageFits(object)
    BY SameStructs DEF M!from_value, M!MessageFits, M!Fits
  <1>2. m = [f \in {"phase"} \cup fields[1] \cup fields[2] |->
                IF f \in DOMAIN object THEN object[f] ELSE None]
    BY DEF M!FromObject
  <1>3. DOMAIN m = {"phase"} \cup fields[1] \cup fields[2] /\ m.phase = object.phase
    <2> HIDE DEF m
    <2> QED BY <1>1, <1>2
  <1>4. DOMAIN r = {"phase"} \cup fields[1] \cup fields[2] /\ r.phase = object.phase
    <2>1. CASE object.phase # "OFFER"
      BY <1>1, <1>3, <2>1 DEF M!from_value
    <2>2. CASE object.phase = "OFFER"
      <3> DEFINE e == M!FromObject(m.economic_envelope, {"max_fees_bps"}, {"expiry"})
      <3>1. r = [m EXCEPT !.economic_envelope = e]
        BY <1>1, <1>3, <2>2 DEF M!from_value
      <3> HIDE DEF m, e, r
      <3> QED BY <1>1, <1>3, <3>1
    <2> QED BY <2>1, <2>2
  <1>5. /\ object.phase = "QUERY" => "escrow_contract_from_402" \in fields[2]
        /\ object.phase = "OFFER" => "coreprover_contract" \in fields[2]
        /\ object.phase = "SETTLE" => "layer8_tx" \in fields[2]
    BY DEF M!TGPMessage, M!QueryMessage, M!OfferMessage, M!SettleMessage
  <1> HIDE DEF fields, r
  <1> QED BY <1>1, <1>4, <1>5 DEF Shape, r

-----------------------------------------------------------------------------
(* A struct that is written and read again is what it was: an Option that  *)
(* is left out is None again.                                              *)
IsStruct(r, fields) == r = [f \in fields |-> r[f]]

LEMMA WrittenFits ==
    ASSUME NEW required, NEW options, NEW r, DOMAIN r = required \cup options,
           required \cap options = {}
    PROVE  Fits(ToObject(r, options), required)
  BY DEF Fits, ToObject

LEMMA WrittenRead ==
    ASSUME NEW required, NEW options, NEW r, IsStruct(r, required \cup options)
    PROVE  FromObject(ToObject(r, options), required, options) = r
  <1> DEFINE o == ToObject(r, options)
             q == FromObject(o, required, options)
  <1>1. DOMAIN r = required \cup options
    BY DEF IsStruct
  <1>2. /\ DOMAIN o = {g \in DOMAIN r : g \in options => r[g] # None}
        /\ \A g \in DOMAIN o : o[g] = r[g]
    BY DEF ToObject
  <1>3. q = [f \in required \cup options |-> IF f \in DOMAIN o THEN o[f] ELSE None]
    BY DEF FromObject
  <1> HIDE DEF o
  <1>4. \A f \in required \cup options : (IF f \in DOMAIN o THEN o[f] ELSE None) = r[f]
    BY <1>1, <1>2
  <1>5. q = [f \in required \cup options |-> r[f]]
    BY <1>3, <1>4
  <1> QED BY <1>5 DEF IsStruct, o

(* The fields of each struct.                                              *)
Fields(phase) == {"phase"} \cup M!TGPMessage[phase][1] \cup M!TGPMessage[phase][2]
TermFields == {"max_fees_bps", "expiry"}

(* A message of either implementation: its fields, and for an OFFER terms  *)
(* with an amount, a fee and an expiry that are given.                     *)
TermsSound(m) ==
    /\ IsStruct(m.economic_envelope, TermFields)
    /\ m.amount \in 0..(AmountSpace - 1)
    /\ m.economic_envelope.max_fees_bps \in Nat
    /\ m.economic_envelope.expiry \in Expiries \cup {None}

IsMessage(m) ==
    /\ m.phase \in Phases
    /\ IsStruct(m, Fields(m.phase))
    /\ m.phase = "OFFER" => TermsSound(m)

LEMMA FieldsOfPhases ==
    /\ Fields("QUERY") = {"phase", "id", "from", "to", "asset", "amount", "escrow_from_402",
                          "zk_profile", "escrow_contract_from_402"}
    /\ Fields("OFFER") = {"phase", "id", "query_id", "asset", "amount", "zk_required",
                          "economic_envelope", "coreprover_contract", "session_id"}
    /\ Fields("SETTLE") = {"phase", "id", "query_or_offer_id", "success", "source",
                           "layer8_tx", "session_id"}
    /\ Fields("ERROR") = {"phase", "id", "code", "message", "correlation_id"}
  BY DEF Fields, M!TGPMessage, M!QueryMessage, M!OfferMessage, M!SettleMessage, M!ErrorMessage

(* No field is required and an Option.                                     *)
LEMMA OptionsApart ==
    ASSUME NEW phase \in Phases
    PROVE  ({"phase"} \cup M!TGPMessage[phase][1]) \cap M!TGPMessage[phase][2] = {}
  BY DEF Phases, M!TGPMessage, M!QueryMessage, M!OfferMessage, M!SettleMessage, M!ErrorMessage

(* Every message can be written and is read as it was written.             *)
LEMMA MessageRead ==
    ASSUME NEW m, IsMessage(m)
    PROVE  M!from_value(M!to_value(m)) = m
  <1> DEFINE required == {"phase"} \cup M!TGPMessage[m.phase][1]
             options == M!TGPMessage[m.phase][2]
             object == M!to_value(m)
  <1>1. /\ m.phase \in Phases /\ IsStruct(m, required \cup options) /\ "phase" \in required
        /\ required \cap options = {} /\ M!TGPMessage[m.phase][1] \subseteq required
    BY OptionsApart DEF IsMessage, Fields
  <1>2. DOMAIN m = required \cup options
    BY <1>1 DEF IsStruct
  <1>3. CASE m.phase # "OFFER"
    <2>1. object = ToObject(m, options)
      BY <1>3 DEF M!to_value, M!ToObject, ToObject
    <2>2. Fits(object, required) /\ FromObject(object, required, options) = m
      <3> HIDE DEF required, options, object
      <3> QED BY <1>1, <1>2, <2>1, WrittenFits, WrittenRead
    <2>3. "phase" \in DOMAIN object /\ object.phase = m.phase
      <3> HIDE DEF required, options, object
      <3> QED BY <1>1, <1>2, <2>1 DEF ToObject
    <2>4. M!MessageFits(object)
      <3> HIDE DEF options, object
      <3> QED BY <1>1, <1>3, <2>2, <2>3, SameStructs DEF M!MessageFits, M!Fits, Fits
    <2>5. M!FromObject(object, required, options) = m
      <3> HIDE DEF options, object, required
      <3> QED BY <2>2 DEF M!FromObject, FromObject
    <2>6. M!from_value(object) = m
      <3>1. M!FromObject(object, {"phase"} \cup M!TGPMessage[object.phase][1],
                         M!TGPMessage[object.phase][2]) = m
        <4> HIDE DEF object
        <4> QED BY <2>3, <2>5
      <3> HIDE DEF object
      <3> QED BY <1>3, <2>4, <3>1 DEF M!from_value
    <2> QED BY <2>6
  <1>4. CASE m.phase = "OFFER"
    <2> DEFINE e == m.economic_envelope
               w == ToObject(e, {"expiry"})
               n == [m EXCEPT !.economic_envelope = w]
    <2>1. object = ToObject(n, options)
      BY <1>4 DEF M!to_value, M!ToObject, ToObject
    <2>2. IsStruct(e, {"max_fees_bps"} \cup {"expiry"})
      <3>1. TermFields = {"max_fees_bps"} \cup {"expiry"}
        BY DEF TermFields
      <3> QED BY <1>4, <3>1 DEF IsMessage, TermsSound
    <2>3. /\ Fits(w, {"max_fees_bps"})
          /\ FromObject(w, {"max_fees_bps"}, {"expiry"}) = e
      <3>1. DOMAIN e = {"max_fees_bps"} \cup {"expiry"}
        <4> HIDE DEF e
        <4> QED BY <2>2 DEF IsStruct
      <3>2. {"max_fees_bps"} \cap {"expiry"} = {}
        OBVIOUS
      <3> HIDE DEF e
      <3> QED BY <2>2, <3>1, <3>2, WrittenFits, WrittenRead
    <2>4. "economic_envelope" \in required
      BY <1>4 DEF M!TGPMessage, M!OfferMessage
    <2> HIDE DEF w, required, options
    <2>5. IsStruct(n, required \cup options) /\ n.phase = "OFFER" /\ n.economic_envelope = w
      BY <1>1, <1>2, <1>4, <2>4 DEF IsStruct
    <2>6. DOMAIN n = required \cup options
      BY <1>2
    <2> HIDE DEF n
    <2>7. Fits(object, required) /\ FromObject(object, required, options) = n
      <3> HIDE DEF object
      <3> QED BY <1>1, <2>1, <2>5, <2>6, WrittenFits, WrittenRead
    <2>8. /\ "phase" \in DOMAIN object /\ object.phase = "OFFER"
          /\ object.economic_envelope = w
      <3> HIDE DEF object
      <3> QED BY <1>1, <2>1, <2>4, <2>5, <2>6 DEF ToObject
    <2> HIDE DEF object
    <2>9. M!MessageFits(object)
      BY <1>1, <1>4, <2>3, <2>7, <2>8, SameStructs DEF M!MessageFits, M!Fits, Fits
    <2>10. /\ M!FromObject(object, required, options) = n
           /\ M!FromObject(w, {"max_fees_bps"}, {"expiry"}) = e
      BY <2>3, <2>7 DEF M!FromObject, FromObject
    <2>11. M!from_value(object) = [n EXCEPT !.economic_envelope = e]
      <3>1. /\ {"phase"} \cup M!TGPMessage[object.phase][1] = required
            /\ M!TGPMessage[object.phase][2] = options
        BY <1>4, <2>8 DEF required, options
      <3>2. M!FromObject(object, {"phase"} \cup M!TGPMessage[object.phase][1],
                         M!TGPMessage[object.phase][2]) = n
        BY <2>10, <3>1
      <3>3. "economic_envelope" \in DOMAIN n
        BY <2>4, <2>6
      <3>4. [n EXCEPT !.economic_envelope = M!FromObject(@, {"max_fees_bps"}, {"expiry"})]
                = [n EXCEPT !.economic_envelope = e]
        BY <2>5, <2>10, <3>3
      <3> QED BY <2>5, <2>9, <3>2, <3>4 DEF M!from_value
    <2>12. [n EXCEPT !.economic_envelope = e] = m
      BY <1>1, <1>2, <2>4 DEF n, IsStruct
    <2> QED BY <2>11, <2>12 DEF object
  <1> QED BY <1>3, <1>4

-----------------------------------------------------------------------------
(* A payload of each kind: its fields, in a HELLO those of the             *)
(* authentication, and in an error a code there is.                        *)
ControlFields(type) == {"kind", "control_type"} \cup ControlPayload[type]
ErrorFields == {"kind"} \cup ErrorPayload \cup ErrorOptions

HelloSound(p) ==
    /\ IsStruct(p.auth, AuthInfo[1] \cup AuthInfo[2])
    /\ [versions |-> p.supported_tgp_versions, chains |-> p.supported_chains] # None

IsControl(p) ==
    /\ p.control_type \in DOMAIN ControlPayload
    /\ IsStruct(p, ControlFields(p.control_type))
    /\ p.control_type = "HELLO" => HelloSound(p)

IsPayload(p) ==
    /\ p.kind \in MessageType
    /\ p.kind = "CONTROL" => IsControl(p)
    /\ p.kind = "TGP" => IsStruct(p, {"kind", "tgp"})
    /\ p.kind = "ERROR" => IsStruct(p, ErrorFields) /\ p.error_code \in ErrorCode

(* The value of a payload: its fields without the kind, the Options that   *)
(* are None and, in a HELLO, the token that is None.                       *)
LEMMA PayloadWritten ==
    ASSUME NEW p
    PROVE  /\ DOMAIN payload_to_value(p) =
                  {f \in DOMAIN p \ {"kind"} : f \in ErrorOptions => p[f] # None}
           /\ \A f \in DOMAIN payload_to_value(p) : payload_to_value(p)[f] =
                  IF f = "auth" THEN ToObject(p.auth, AuthInfo[2]) ELSE p[f]
  <1> DEFINE o == ToObject(p, ErrorOptions)
  <1>1. /\ DOMAIN o = {f \in DOMAIN p : f \in ErrorOptions => p[f] # None}
        /\ \A f \in DOMAIN o : o[f] = p[f]
    BY DEF ToObject
  <1>2. payload_to_value(p) =
            [f \in DOMAIN o \ {"kind"} |-> IF f = "auth" THEN ToObject(o.auth, AuthInfo[2]) ELSE o[f]]
    BY DEF payload_to_value
  <1> HIDE DEF o
  <1>3. DOMAIN payload_to_value(p) = DOMAIN o \ {"kind"}
    BY <1>2
  <1>4. \A f \in DOMAIN payload_to_value(p) : payload_to_value(p)[f] =
            IF f = "auth" THEN ToObject(p.auth, AuthInfo[2]) ELSE p[f]
    BY <1>1, <1>2, <1>3
  <1> QED BY <1>1, <1>3, <1>4

(* A payload is read as it was written: no kind is taken for another.      *)
LEMMA ControlRead ==
    ASSUME NEW p, p.kind = "CONTROL", IsControl(p)
    PROVE  ControlFits(payload_to_value(p)) /\ payload_from_value(payload_to_value(p)) = p
  <1> DEFINE v == payload_to_value(p)
             fields == {"control_type"} \cup ControlPayload[p.control_type]
             c == FromObject(v, fields, {})
  <1>1. /\ DOMAIN p = fields \cup {"kind"}
        /\ "kind" \notin fields /\ fields \cap ErrorOptions = {}
        /\ "auth" \in fields <=> p.control_type = "HELLO"
    BY DEF IsControl, IsStruct, ControlFields, ControlPayload, HelloPayload, WelcomePayload,
       ErrorOptions
  <1>2. /\ DOMAIN v = fields
        /\ \A f \in fields : v[f] = IF f = "auth" THEN ToObject(p.auth, AuthInfo[2]) ELSE p[f]
    <2> HIDE DEF fields
    <2> QED BY <1>1, PayloadWritten
  <1>3. v.control_type = p.control_type /\ p.control_type \in DOMAIN ControlPayload
    BY <1>2 DEF IsControl
  <1>4. CASE p.control_type # "HELLO"
    <2>1. ControlFits(v)
      <3> HIDE DEF v
      <3> QED BY <1>2, <1>3, <1>4 DEF ControlFits, Fits
    <2>2. c = [f \in fields |-> p[f]]
      <3> HIDE DEF v, fields
      <3> QED BY <1>1, <1>2, <1>4 DEF FromObject
    <2>3. payload_from_value(v) =
              [f \in DOMAIN c \cup {"kind"} |-> IF f = "kind" THEN "CONTROL" ELSE c[f]]
      <3> HIDE DEF v
      <3> QED BY <1>3, <1>4, <2>1 DEF payload_from_value
    <2>4. payload_from_value(v) = [f \in fields \cup {"kind"} |-> p[f]]
      <3> HIDE DEF v, fields, c
      <3> QED BY <1>1, <2>2, <2>3
    <2>5. p = [f \in fields \cup {"kind"} |-> p[f]]
      BY DEF IsControl, IsStruct, ControlFields
    <2> QED BY <2>1, <2>4, <2>5
  <1>5. CASE p.control_type = "HELLO"
    <2> DEFINE a == ToObject(p.auth, AuthInfo[2])
               d == [c EXCEPT !.auth = p.auth]
    <2>1. IsStruct(p.auth, AuthInfo[1] \cup AuthInfo[2])
      BY <1>5 DEF IsControl, HelloSound
    <2>2. Fits(a, AuthInfo[1]) /\ FromObject(a, AuthInfo[1], AuthInfo[2]) = p.auth
      <3>1. DOMAIN p.auth = AuthInfo[1] \cup AuthInfo[2]
        BY <2>1 DEF IsStruct
      <3>2. AuthInfo[1] \cap AuthInfo[2] = {}
        BY DEF AuthInfo
      <3> QED BY <2>1, <3>1, <3>2, WrittenFits, WrittenRead
    <2>3. v.auth = a
      <3> HIDE DEF v, fields
      <3> QED BY <1>1, <1>2, <1>5
    <2>4. ControlFits(v)
      <3> HIDE DEF v, a
      <3> QED BY <1>2, <1>3, <1>5, <2>2, <2>3 DEF ControlFits, Fits
    <2>5. c = [f \in fields |-> v[f]]
      <3> HIDE DEF v, fields
      <3> QED BY <1>2 DEF FromObject
    <2>6. /\ FromObject(v, {"control_type"} \cup ControlPayload[v.control_type], {}) = c
          /\ [c EXCEPT !.auth = FromObject(@, AuthInfo[1], AuthInfo[2])] = d
      <3>1. FromObject(v, {"control_type"} \cup ControlPayload[v.control_type], {}) = c
        <4> HIDE DEF v
        <4> QED BY <1>3
      <3>2. c.auth = a
        <4> HIDE DEF v, fields, c, a
        <4> QED BY <1>1, <1>5, <2>3, <2>5
      <3>3. FromObject(c.auth, AuthInfo[1], AuthInfo[2]) = p.auth
        <4> HIDE DEF c, a
        <4> QED BY <2>2, <3>2
      <3>4. [c EXCEPT !.auth = FromObject(@, AuthInfo[1], AuthInfo[2])] = d
        <4> HIDE DEF c
        <4> QED BY <3>3
      <3> QED BY <3>1, <3>4
    <2>7. payload_from_value(v) =
              [f \in DOMAIN d \cup {"kind"} |-> IF f = "kind" THEN "CONTROL" ELSE d[f]]
      <3> HIDE DEF v, c, d
      <3> QED BY <1>3, <1>5, <2>4, <2>6 DEF payload_from_value
    <2>8. DOMAIN d = fields /\ \A f \in fields : d[f] = p[f]
      <3> HIDE DEF v, fields, c
      <3> QED BY <1>1, <1>2, <1>5, <2>5
    <2>9. payload_from_value(v) = [f \in fields \cup {"kind"} |-> p[f]]
      <3> HIDE DEF v, fields, c, d
      <3> QED BY <1>1, <2>7, <2>8
    <2>10. p = [f \in fields \cup {"kind"} |-> p[f]]
      BY DEF IsControl, IsStruct, ControlFields
    <2> QED BY <2>4, <2>9, <2>10
  <1> QED BY <1>4, <1>5

LEMMA PayloadRead ==
    ASSUME NEW p, IsPayload(p)
    PROVE  PayloadFits(payload_to_value(p)) /\ payload_from_value(payload_to_value(p)) = p
  <1> DEFINE v == payload_to_value(p)
  <1>1. CASE p.kind = "CONTROL"
    BY <1>1, ControlRead DEF IsPayload, PayloadFits
  <1>2. CASE p.kind = "TGP"
    <2>1. p = [f \in {"kind", "tgp"} |-> p[f]]
      BY <1>2 DEF IsPayload, IsStruct
    <2>2. DOMAIN p = {"kind", "tgp"}
      BY <2>1
    <2>3. DOMAIN v = {"tgp"} /\ v.tgp = p.tgp
      BY <2>2, PayloadWritten DEF ErrorOptions
    <2> HIDE DEF v
    <2>4. ~ ControlFits(v) /\ Fits(v, {"tgp"})
      BY <2>3 DEF ControlFits, Fits
    <2>5. FromObject(v, {"tgp"}, {}) = [f \in {"tgp"} |-> p.tgp]
      BY <2>3 DEF FromObject
    <2>6. payload_from_value(v) =
              [f \in {"tgp"} \cup {"kind"} |-> IF f = "kind" THEN "TGP" ELSE p.tgp]
      BY <2>4, <2>5 DEF payload_from_value
    <2>7. payload_from_value(v) = [f \in {"kind", "tgp"} |-> p[f]]
      BY <1>2, <2>6
    <2> QED BY <2>1, <2>4, <2>7 DEF PayloadFits, v
  <1>3. CASE p.kind = "ERROR"
    <2>1. p = [f \in ErrorFields |-> p[f]]
      BY <1>3 DEF IsPayload, IsStruct
    <2>2. DOMAIN p = ErrorFields
      BY <2>1
    <2>3. /\ DOMAIN v = {f \in ErrorFields \ {"kind"} : f \in ErrorOptions => p[f] # None}
          /\ \A f \in DOMAIN v : v[f] = p[f]
      BY <2>2, PayloadWritten DEF ErrorFields, ErrorPayload, ErrorOptions
    <2> HIDE DEF v
    <2>4. ~ ControlFits(v) /\ ~ Fits(v, {"tgp"}) /\ Fits(v, ErrorPayload)
      BY <2>3 DEF ControlFits, Fits, ErrorFields, ErrorPayload, ErrorOptions
    <2>5. FromObject(v, ErrorPayload, ErrorOptions) = [f \in ErrorPayload \cup ErrorOptions |-> p[f]]
      <3>1. \A f \in ErrorPayload \cup ErrorOptions : (IF f \in DOMAIN v THEN v[f] ELSE None) = p[f]
        BY <2>3 DEF ErrorFields, ErrorPayload, ErrorOptions
      <3> QED BY <3>1 DEF FromObject
    <2>6. payload_from_value(v) =
              [f \in (ErrorPayload \cup ErrorOptions) \cup {"kind"} |->
                  IF f = "kind" THEN "ERROR" ELSE p[f]]
      <3> DEFINE g == FromObject(v, ErrorPayload, ErrorOptions)
      <3>1. payload_from_value(v) =
                [f \in DOMAIN g \cup {"kind"} |-> IF f = "kind" THEN "ERROR" ELSE g[f]]
        BY <2>4 DEF payload_from_value
      <3>2. DOMAIN g = ErrorPayload \cup ErrorOptions /\ \A f \in DOMAIN g : g[f] = p[f]
        BY <2>5
      <3> HIDE DEF g
      <3> QED BY <3>1, <3>2 DEF ErrorPayload, ErrorOptions
    <2>7. payload_from_value(v) = [f \in ErrorFields |-> p[f]]
      BY <1>3, <2>6 DEF ErrorFields
    <2> QED BY <2>1, <2>4, <2>7 DEF PayloadFits, v
  <1> QED BY <1>1, <1>2, <1>3 DEF IsPayload, MessageType

(* An envelope is read as it was written.                                  *)
IsEnvelope(e) ==
    /\ IsStruct(e, EnvelopeFields \cup EnvelopeOptions)
    /\ e.txip_version = TXIP_VERSION
    /\ e.direction \in Direction /\ e.role \in Role
    /\ e.message_type \in MessageType /\ e.tgp_phase \in TgpPhase
    /\ IsPayload(e.payload)

LEMMA EnvelopeRead ==
    ASSUME NEW e, IsEnvelope(e)
    PROVE  EnvelopeFits(to_string(e)) /\ from_str(to_string(e)) = e
  <1> DEFINE v == payload_to_value(e.payload)
             n == [e EXCEPT !.payload = v]
             w == to_string(e)
  <1>1. /\ IsStruct(e, EnvelopeFields \cup EnvelopeOptions) /\ IsPayload(e.payload)
        /\ EnvelopeFields \cap EnvelopeOptions = {} /\ "payload" \in EnvelopeFields
    BY DEF IsEnvelope, EnvelopeFields, EnvelopeOptions
  <1>2. DOMAIN e = EnvelopeFields \cup EnvelopeOptions
    BY <1>1 DEF IsStruct
  <1>3. PayloadFits(v) /\ payload_from_value(v) = e.payload
    BY <1>1, PayloadRead
  <1>4. w = ToObject(n, EnvelopeOptions)
    BY DEF to_string
  <1> HIDE DEF v, w
  <1>5. IsStruct(n, EnvelopeFields \cup EnvelopeOptions) /\ n.payload = v
    BY <1>1, <1>2 DEF IsStruct
  <1>6. DOMAIN n = EnvelopeFields \cup EnvelopeOptions
    BY <1>2
  <1> HIDE DEF n
  <1>7. Fits(w, EnvelopeFields) /\ FromObject(w, EnvelopeFields, EnvelopeOptions) = n
    BY <1>1, <1>4, <1>5, <1>6, WrittenFits, WrittenRead
  <1>8. w.payload = v
    BY <1>1, <1>4, <1>5, <1>6 DEF ToObject
  <1>9. EnvelopeFits(w)
    BY <1>3, <1>7, <1>8 DEF EnvelopeFits
  <1>10. [n EXCEPT !.payload = payload_from_value(@)] = [n EXCEPT !.payload = e.payload]
    BY <1>3, <1>5
  <1>11. from_str(w) = [n EXCEPT !.payload = e.payload]
    BY <1>7, <1>9, <1>10 DEF from_str
  <1>12. [n EXCEPT !.payload = e.payload] = e
    BY <1>1, <1>2 DEF n, IsStruct
  <1> QED BY <1>9, <1>11, <1>12 DEF w

-----------------------------------------------------------------------------
(* Every constructor makes a message.                                      *)
LEMMA QueryMade ==
    ASSUME NEW id, NEW from, NEW to, NEW asset, NEW amount, NEW contract, NEW profile
    PROVE  /\ IsMessage(M!QueryNew(id, from, to, asset, amount, profile))
           /\ IsMessage(P!QueryNew(id, from, to, asset, amount, profile))
           /\ IsMessage(M!QueryWithEscrow(id, from, to, asset, amount, contract, profile))
  <1> DEFINE m == M!QueryNew(id, from, to, asset, amount, profile)
             n == M!QueryWithEscrow(id, from, to, asset, amount, contract, profile)
  <1>1. IsStruct(m, Fields("QUERY")) /\ m.phase = "QUERY"
    BY FieldsOfPhases DEF IsStruct, M!QueryNew
  <1>2. n = [m EXCEPT !.escrow_from_402 = TRUE, !.escrow_contract_from_402 = contract]
    BY DEF M!QueryWithEscrow
  <1>3. P!QueryNew(id, from, to, asset, amount, profile) = m
    BY DEF M!QueryNew, P!QueryNew
  <1> HIDE DEF m, n
  <1>4. DOMAIN m = Fields("QUERY")
    BY <1>1 DEF IsStruct
  <1>5. DOMAIN n = Fields("QUERY") /\ n.phase = "QUERY"
    BY <1>1, <1>2, <1>4
  <1>6. IsStruct(n, Fields("QUERY"))
    BY <1>2, <1>4, <1>5 DEF IsStruct
  <1>7. IsMessage(m) /\ IsMessage(n)
    BY <1>1, <1>5, <1>6 DEF IsMessage, Phases
  <1> QED BY <1>3, <1>7 DEF m, n

LEMMA OfferMade ==
    ASSUME NEW id, NEW query_id, NEW asset, NEW zk, NEW amount \in Amounts, NEW e \in Envelopes
    PROVE  /\ IsMessage(M!OfferNew(id, query_id, asset, amount, zk, e))
           /\ IsMessage(P!OfferNew(id, query_id, asset, amount, zk, e))
  <1>1. /\ IsStruct(e, TermFields) /\ e.max_fees_bps \in Nat
        /\ e.expiry \in Expiries \cup {None}
    BY EnvelopeAssumption DEF Envelopes, IsStruct, TermFields, M!EnvelopeNew, P!EnvelopeNew,
       M!EnvelopeWithExpiry, P!EnvelopeWithExpiry
  <1>2. ASSUME NEW m, m = M!OfferNew(id, query_id, asset, amount, zk, e) PROVE IsMessage(m)
    <2>1. m.phase = "OFFER" /\ m.amount = amount /\ m.economic_envelope = e
      BY <1>2 DEF M!OfferNew
    <2>2. IsStruct(m, Fields("OFFER"))
      BY <1>2, FieldsOfPhases DEF M!OfferNew, IsStruct
    <2>3. TermsSound(m)
      BY <1>1, <2>1, AmountAssumption DEF TermsSound
    <2> QED BY <2>1, <2>2, <2>3 DEF IsMessage, Phases
  <1>3. P!OfferNew(id, query_id, asset, amount, zk, e) = M!OfferNew(id, query_id, asset, amount, zk, e)
    BY DEF M!OfferNew, P!OfferNew
  <1> QED BY <1>2, <1>3

LEMMA SettleMade ==
    ASSUME NEW id, NEW ref, NEW success, NEW source
    PROVE  /\ IsMessage(M!SettleNew(id, ref, success, source))
           /\ IsMessage(P!SettleNew(id, ref, success, source))
  BY FieldsOfPhases DEF IsMessage, IsStruct, Phases, M!SettleNew, P!SettleNew

LEMMA ErrorMade ==
    ASSUME NEW id, NEW code, NEW text, NEW correlation
    PROVE  /\ IsMessage(M!ErrorNew(id, code, text)) /\ IsMessage(P!ErrorNew(id, code, text))
           /\ IsMessage(M!ErrorWithCorrelation(id, code, text, correlation))
           /\ IsMessage(P!ErrorWithCorrelation(id, code, text, correlation))
  BY FieldsOfPhases DEF IsMessage, IsStruct, Phases, M!ErrorNew, P!ErrorNew,
     M!ErrorWithCorrelation, P!ErrorWithCorrelation

(* And every builder keeps it one.                                         *)
LEMMA OptionSet ==
    ASSUME NEW m, IsMessage(m), NEW x,
           NEW f \in {"coreprover_contract", "layer8_tx", "session_id"}
    PROVE  IsMessage([m EXCEPT ![f] = x])
  <1> DEFINE n == [m EXCEPT ![f] = x]
  <1>1. DOMAIN m = Fields(m.phase) /\ m.phase \in Phases
    BY DEF IsMessage, IsStruct
  <1>2. /\ n = [g \in DOMAIN m |-> IF g = f THEN x ELSE m[g]]
        /\ f \notin {"phase", "amount", "economic_envelope"}
    OBVIOUS
  <1> HIDE DEF n
  <1>3. "phase" \in Fields(m.phase)
    BY DEF Fields
  <1>4. n.phase = m.phase /\ IsStruct(n, Fields(n.phase))
    BY <1>1, <1>2, <1>3 DEF IsStruct
  <1>5. ASSUME n.phase = "OFFER" PROVE TermsSound(n)
    <2>1. "amount" \in Fields(m.phase) /\ "economic_envelope" \in Fields(m.phase)
      BY <1>4, <1>5, FieldsOfPhases
    <2>2. n.amount = m.amount /\ n.economic_envelope = m.economic_envelope
      BY <1>1, <1>2, <2>1
    <2> QED BY <1>4, <1>5, <2>2 DEF IsMessage, TermsSound
  <1> QED BY <1>1, <1>4, <1>5 DEF IsMessage, n

(* Every envelope that is sent is one.                                     *)
LEMMA EnvelopeMade ==
    ASSUME NEW msg_id, NEW session_id, NEW direction \in Direction, NEW role \in Role,
           NEW type \in MessageType, NEW phase \in TgpPhase, NEW ts,
           NEW payload, IsPayload(payload)
    PROVE  IsEnvelope(new(msg_id, session_id, direction, role, type, phase, ts, payload))
  <1> DEFINE e == new(msg_id, session_id, direction, role, type, phase, ts, payload)
  <1>1. IsStruct(e, EnvelopeFields \cup EnvelopeOptions)
    BY DEF new, IsStruct, EnvelopeFields, EnvelopeOptions
  <1>2. /\ e.txip_version = TXIP_VERSION /\ e.direction = direction /\ e.role = role
        /\ e.message_type = type /\ e.tgp_phase = phase /\ e.payload = payload
    BY DEF new
  <1> HIDE DEF e
  <1>3. IsEnvelope(e)
    BY <1>1, <1>2 DEF IsEnvelope
  <1> QED BY <1>3 DEF e

(* So is one that a builder gave an attribute more.                        *)
LEMMA AttributeSet ==
    ASSUME NEW e, IsEnvelope(e), NEW x, NEW f \in {"origin_chain_id", "tgp_type"}
    PROVE  IsEnvelope([e EXCEPT ![f] = x]) /\ [e EXCEPT ![f] = x].payload = e.payload
  <1> DEFINE n == [e EXCEPT ![f] = x]
             fields == EnvelopeFields \cup EnvelopeOptions
  <1>1. IsStruct(e, fields) /\ {"txip_version", "direction", "role", "message_type",
                                "tgp_phase", "payload"} \subseteq fields
    BY DEF IsEnvelope, EnvelopeFields, EnvelopeOptions
  <1> HIDE DEF fields
  <1>2. DOMAIN e = fields
    BY <1>1 DEF IsStruct
  <1>3. n = [g \in DOMAIN e |-> IF g = f THEN x ELSE e[g]]
    OBVIOUS
  <1> HIDE DEF n
  <1>4. IsStruct(n, fields)
    BY <1>2, <1>3 DEF IsStruct
  <1>5. /\ n.txip_version = e.txip_version /\ n.direction = e.direction /\ n.role = e.role
        /\ n.message_type = e.message_type /\ n.tgp_phase = e.tgp_phase
        /\ n.payload = e.payload
    BY <1>1, <1>2, <1>3
  <1>6. IsEnvelope(n)
    BY <1>4, <1>5 DEF IsEnvelope, fields
  <1> QED BY <1>5, <1>6 DEF n

(* The payloads *)
LEMMA TgpMade == ASSUME NEW value PROVE IsPayload([kind |-> "TGP", tgp |-> value])
  BY DEF IsPayload, IsStruct, MessageType

LEMMA ErrorPayloadMade ==
    ASSUME NEW code \in ErrorCode, NEW status, NEW related, NEW details, NEW retryable
    PROVE  IsPayload([kind |-> "ERROR", error_code |-> code, http_status |-> status,
               related_msg_id |-> related, details |-> details, retryable |-> retryable])
  BY DEF IsPayload, IsStruct, MessageType, ErrorFields, ErrorPayload, ErrorOptions

LEMMA WelcomeMade ==
    ASSUME NEW tbc_id, NEW session_id, NEW version, NEW chains, NEW features, NEW interval
    PROVE  IsPayload([kind |-> "CONTROL", control_type |-> "WELCOME", tbc_id |-> tbc_id,
               session_id |-> session_id, negotiated_tgp_version |-> version,
               negotiated_chains |-> chains, negotiated_features |-> features,
               heartbeat_interval_sec |-> interval])
  BY DEF IsPayload, IsControl, IsStruct, MessageType, ControlFields, ControlPayload, WelcomePayload

LEMMA HeartbeatMade ==
    ASSUME NEW seq, NEW reason
    PROVE  /\ IsPayload([kind |-> "CONTROL", control_type |-> "HEARTBEAT", seq |-> seq])
           /\ IsPayload([kind |-> "CONTROL", control_type |-> "CLOSE", reason |-> reason])
  BY DEF IsPayload, IsControl, IsStruct, MessageType, ControlFields, ControlPayload

LEMMA HelloMade ==
    ASSUME NEW agent, NEW versions, NEW transports, NEW chains, NEW assets, NEW features,
           NEW scheme, NEW token, [versions |-> versions, chains |-> chains] # None
    PROVE  IsPayload([kind |-> "CONTROL", control_type |-> "HELLO", agent_id |-> agent,
               supported_tgp_versions |-> versions, supported_transports |-> transports,
               supported_chains |-> chains, supported_assets |-> assets,
               features |-> features, auth |-> [scheme |-> scheme, token |-> token]])
  <1> DEFINE p == [kind |-> "CONTROL", control_type |-> "HELLO", agent_id |-> agent,
               supported_tgp_versions |-> versions, supported_transports |-> transports,
               supported_chains |-> chains, supported_assets |-> assets,
               features |-> features, auth |-> [scheme |-> scheme, token |-> token]]
  <1>1. /\ p.kind = "CONTROL" /\ p.control_type = "HELLO"
        /\ p.supported_tgp_versions = versions /\ p.supported_chains = chains
        /\ p.auth = [scheme |-> scheme, token |-> token]
    OBVIOUS
  <1>2. IsStruct(p, ControlFields("HELLO"))
    BY DEF IsStruct, ControlFields, ControlPayload, HelloPayload
  <1> HIDE DEF p
  <1>3. HelloSound(p)
    BY <1>1 DEF HelloSound, IsStruct, AuthInfo
  <1>4. IsPayload(p)
    BY <1>1, <1>2, <1>3 DEF IsPayload, IsControl, MessageType, ControlPayload
  <1> QED BY <1>4 DEF p

(* The envelopes of an error and of a welcome.                             *)
LEMMA ErrorEnvelope ==
    ASSUME NEW msg_id, NEW session_id, NEW direction \in Direction, NEW code \in ErrorCode,
           NEW status, NEW related, NEW details, NEW retryable, NEW ts,
           NEW e, e = error(msg_id, session_id, direction, code, status, related, details,
                            retryable, ts)
    PROVE  /\ IsEnvelope(e) /\ e.payload.kind = "ERROR"
           /\ e.msg_id = msg_id /\ e.session_id = session_id /\ e.message_type = "ERROR"
           /\ e.payload.http_status = status /\ e.payload.related_msg_id = related
           /\ timestamp(e) = TripleTimestamp(ts.mono, ts.unix, ts.iso)
  <1> DEFINE p == [kind |-> "ERROR", error_code |-> code, http_status |-> status,
                   related_msg_id |-> related, details |-> details, retryable |-> retryable]
  <1>1. IsPayload(p) /\ p.kind = "ERROR" /\ p.http_status = status /\ p.related_msg_id = related
    BY ErrorPayloadMade
  <1>2. e = new(msg_id, session_id, direction, "TBC", "ERROR", "NONE", ts, p)
    BY DEF error
  <1>3. "TBC" \in Role /\ "ERROR" \in MessageType /\ "NONE" \in TgpPhase
    BY DEF Role, MessageType, TgpPhase
  <1> HIDE DEF p
  <1>4. IsEnvelope(e)
    BY <1>1, <1>2, <1>3, EnvelopeMade
  <1>5. /\ e.payload = p /\ e.msg_id = msg_id /\ e.session_id = session_id
        /\ e.message_type = "ERROR" /\ e.timestamp_mono = ts.mono
        /\ e.timestamp_unix = ts.unix /\ e.timestamp_iso = ts.iso
    BY <1>2 DEF new
  <1> QED BY <1>1, <1>4, <1>5 DEF timestamp

LEMMA WelcomeEnvelope ==
    ASSUME NEW msg_id, NEW session_id, NEW tbc_id, NEW version, NEW chains, NEW features,
           NEW interval, NEW ts,
           NEW e, e = welcome(msg_id, session_id, tbc_id, version, chains, features, interval, ts)
    PROVE  /\ IsEnvelope(e) /\ e.payload.kind = "CONTROL"
           /\ e.msg_id = msg_id /\ e.session_id = session_id /\ e.message_type = "CONTROL"
           /\ e.payload.negotiated_tgp_version = version /\ e.payload.negotiated_chains = chains
           /\ timestamp(e) = TripleTimestamp(ts.mono, ts.unix, ts.iso)
  <1> DEFINE p == [kind |-> "CONTROL", control_type |-> "WELCOME", tbc_id |-> tbc_id,
                   session_id |-> session_id, negotiated_tgp_version |-> version,
                   negotiated_chains |-> chains, negotiated_features |-> features,
                   heartbeat_interval_sec |-> interval]
  <1>1. /\ IsPayload(p) /\ p.kind = "CONTROL" /\ p.negotiated_tgp_version = version
        /\ p.negotiated_chains = chains
    BY WelcomeMade
  <1>2. e = new(msg_id, session_id, "TBC_TO_CLIENT", "TBC", "CONTROL", "NONE", ts, p)
    BY DEF welcome
  <1>3. /\ "TBC_TO_CLIENT" \in Direction /\ "TBC" \in Role
        /\ "CONTROL" \in MessageType /\ "NONE" \in TgpPhase
    BY DEF Direction, Role, MessageType, TgpPhase
  <1> HIDE DEF p
  <1>4. IsEnvelope(e)
    BY <1>1, <1>2, <1>3, EnvelopeMade
  <1>5. /\ e.payload = p /\ e.msg_id = msg_id /\ e.session_id = session_id
        /\ e.message_type = "CONTROL" /\ e.timestamp_mono = ts.mono
        /\ e.timestamp_unix = ts.unix /\ e.timestamp_iso = ts.iso
    BY <1>2 DEF new
  <1> QED BY <1>1, <1>4, <1>5 DEF timestamp

-----------------------------------------------------------------------------
(* The inductive invariant.  The text on the wire is that of an envelope   *)
(* that was sent, and as long as it is there, nobody composes: a TGP       *)
(* message in it is the one that was composed.  What was read is what was  *)
(* sent, and the envelope of an answer fits the request.                   *)
Carried ==
    IF sent.payload.kind = "TGP" THEN message # None /\ sent.payload.tgp = M!to_value(message)
    ELSE message = None

IsTables(t) == t.open \in BOOLEAN /\ DOMAIN t = {"open", "cache"}

(* All but the last conjunct of AnswersFit: of an answer a, the tables t   *)
(* after it and the envelope s in it *)
Accepted(a, t, s) ==
    LET repeated == a.msg_id \in a.before.cache IN
    /\ repeated => t = a.before /\ s = None
    /\ a.kind = "TGP" => a.before.open \/ repeated
    /\ a.kind = "TGP" \/ (a.kind = "CONTROL" /\ a.control # "CLOSE") =>
            a.msg_id \in t.cache /\ (t.open \/ repeated)
Answered(a, t, s) ==
    /\ a.status \in {200, 400, 401, 500}
    /\ /\ ~ is_empty(a.msg_id) /\ ~ is_empty(a.session_id)
       /\ a.iso.T /\ a.iso.tail = "Z" /\ a.kind # None /\ a.control # "WELCOME"
       => a.status # 400
    /\ a.status = 200 => Accepted(a, t, s)

(* The last conjunct of AnswersFit, of the envelope e of an answer a *)
Reply(e, a) ==
    /\ validate(e) <=> ~ is_empty(a.session_id)
    /\ e.session_id = a.session_id
    /\ e.payload.kind \in {"CONTROL", "ERROR"}
    /\ e.payload.kind = "ERROR" =>
            e.payload.http_status = a.status /\ e.payload.related_msg_id = a.msg_id
    /\ e.payload.kind # "ERROR" =>
        /\ a.status = 200 /\ tables.open /\ a.hello # None
        /\ e.payload.negotiated_tgp_version \in a.hello.versions
        /\ e.payload.negotiated_chains # {}
        /\ e.payload.negotiated_chains \subseteq a.hello.chains

WireOK ==
    /\ now \in 1..MaxNow /\ IsTables(tables)
    /\ message # None => IsMessage(message)
    /\ sent # None \/ wire # None => IsEnvelope(sent)
    /\ wire # None => wire = to_string(sent) /\ Carried
    /\ received # None => wire # None /\ RoundTrip
    /\ answer # None => Answered(answer, tables, sent)
    /\ answer # None /\ wire # None => Reply(sent, answer)

(* Composing is done before anything is on the wire.                       *)
LEMMA ComposeKeeps ==
    ASSUME WireOK, Idle, NEW m, IsMessage(m), Compose(m) PROVE WireOK'
  BY DEF WireOK, Idle, Compose, tbc, Carried, RoundTrip, Reply

LEMMA BuildKeeps == ASSUME WireOK, Build PROVE WireOK'
  <1>1. wire = None /\ received = None /\ IsMessage(message)
    BY DEF Build, WireOK
  <1>2. IsMessage(message')
    <2>1. \A f \in {"coreprover_contract", "layer8_tx", "session_id"} : \A x :
              IsMessage([message EXCEPT ![f] = x])
      BY <1>1, OptionSet
    <2>2. \E x : \/ message' = [message EXCEPT !["coreprover_contract"] = x]
                 \/ message' = [message EXCEPT !["layer8_tx"] = x]
                 \/ message' = [message EXCEPT !["session_id"] = x]
      BY DEF Build, M!WithCoreprover, M!WithTx, M!WithSession
    <2> QED BY <2>1, <2>2
  <1> QED BY <1>1, <1>2 DEF WireOK, Build, tbc, Reply

(* Whatever is put on the wire is the text of an envelope, of the message  *)
(* composed if it is one of the TGP.                                       *)
LEMMA PutKeeps ==
    ASSUME WireOK, NEW e, IsEnvelope(e), Put(e),
           IF e.payload.kind = "TGP" THEN message # None /\ e.payload.tgp = M!to_value(message)
           ELSE message = None
    PROVE  WireOK'
  <1>1. /\ sent' = e /\ wire' = to_string(e) /\ received = None /\ answer = None
        /\ UNCHANGED <<now, message, received, tables, answer>>
    BY DEF Put, WireOK, Idle, tbc
  <1> QED BY <1>1 DEF WireOK, Carried

LEMMA SendTgpKeeps == ASSUME WireOK, SendTgp PROVE WireOK'
  <1>1. PICK head \in Heads, traced \in BOOLEAN :
            LET phase == IF message.phase \in TgpPhase THEN message.phase ELSE "NONE"
                e == tgp(head[1], head[2], "CLIENT_TO_TBC", "BUYER_AGENT", phase, Clock(head[3]),
                         M!to_value(message))
            IN  Put(IF traced THEN with_tgp_type(with_origin_chain(e, 369), "tgp.escrow.created")
                    ELSE e)
    BY DEF SendTgp
  <1> DEFINE phase == IF message.phase \in TgpPhase THEN message.phase ELSE "NONE"
             e == tgp(head[1], head[2], "CLIENT_TO_TBC", "BUYER_AGENT", phase, Clock(head[3]),
                      M!to_value(message))
             t == with_tgp_type(with_origin_chain(e, 369), "tgp.escrow.created")
  <1>2. message # None
    BY DEF SendTgp
  <1>3. IsEnvelope(e) /\ e.payload.kind = "TGP" /\ e.payload.tgp = M!to_value(message)
    <2>1. phase \in TgpPhase /\ "CLIENT_TO_TBC" \in Direction /\ "BUYER_AGENT" \in Role
          /\ "TGP" \in MessageType
      BY DEF TgpPhase, Direction, Role, MessageType
    <2>2. e.payload = [kind |-> "TGP", tgp |-> M!to_value(message)]
      BY DEF tgp, new
    <2>3. IsEnvelope(e)
      <3> HIDE DEF phase
      <3> QED BY <2>1, TgpMade, EnvelopeMade DEF tgp
    <2> QED BY <2>2, <2>3
  <1> HIDE DEF e
  <1>4. IsEnvelope(t) /\ t.payload = e.payload
    <2> DEFINE o == with_origin_chain(e, 369)
    <2>1. IsEnvelope(o) /\ o.payload = e.payload
      BY <1>3, AttributeSet DEF with_origin_chain
    <2> HIDE DEF o
    <2>2. LET n == with_tgp_type(o, "tgp.escrow.created") IN
          IsEnvelope(n) /\ n.payload = o.payload
      BY <2>1, AttributeSet DEF with_tgp_type
    <2> QED BY <2>1, <2>2 DEF o
  <1>5. \E x \in {e, t} : Put(x)
    BY <1>1 DEF e
  <1> HIDE DEF t
  <1> QED BY <1>2, <1>3, <1>4, <1>5, PutKeeps

LEMMA SendControlKeeps == ASSUME WireOK, SendControl PROVE WireOK'
  <1>1. message = None
    BY DEF SendControl
  <1>2. ASSUME NEW head \in Heads, NEW type \in MessageType, NEW p, IsPayload(p),
               p.kind = "CONTROL",
               Put(new(head[1], head[2], "CLIENT_TO_TBC", "SELLER_AGENT", type, "NONE",
                       Clock(head[3]), p))
        PROVE  WireOK'
    <2> DEFINE e == new(head[1], head[2], "CLIENT_TO_TBC", "SELLER_AGENT", type, "NONE",
                        Clock(head[3]), p)
    <2>1. IsEnvelope(e)
      BY <1>2, EnvelopeMade DEF Direction, Role, TgpPhase
    <2>2. e.payload = p
      BY DEF new
    <2> HIDE DEF e
    <2>3. Put(e)
      BY <1>2 DEF e
    <2> QED BY <1>1, <1>2, <2>1, <2>2, <2>3, PutKeeps
  <1>3. PICK head \in Heads, type \in MessageType :
            LET Send(payload) == Put(new(head[1], head[2], "CLIENT_TO_TBC", "SELLER_AGENT", type,
                                         "NONE", Clock(head[3]), payload))
            IN  \/ \E h \in Hellos, scheme \in AuthScheme :
                      Send([kind |-> "CONTROL", control_type |-> "HELLO", agent_id |-> "agent",
                            supported_tgp_versions |-> h[1], supported_transports |-> {"HTTP"},
                            supported_chains |-> h[2], supported_assets |-> {"USDC"},
                            features |-> {"zk"}, auth |-> [scheme |-> scheme, token |-> h[3]]])
                \/ Send([kind |-> "CONTROL", control_type |-> "HEARTBEAT", seq |-> 0])
                \/ \E reason \in CloseReason :
                      Send([kind |-> "CONTROL", control_type |-> "CLOSE", reason |-> reason])
    BY DEF SendControl
  <1>4. PICK p :
            /\ IsPayload(p) /\ p.kind = "CONTROL"
            /\ Put(new(head[1], head[2], "CLIENT_TO_TBC", "SELLER_AGENT", type, "NONE",
                       Clock(head[3]), p))
    <2>1. ASSUME NEW h \in Hellos, NEW scheme \in AuthScheme
          PROVE  IsPayload([kind |-> "CONTROL", control_type |-> "HELLO", agent_id |-> "agent",
                            supported_tgp_versions |-> h[1], supported_transports |-> {"HTTP"},
                            supported_chains |-> h[2], supported_assets |-> {"USDC"},
                            features |-> {"zk"}, auth |-> [scheme |-> scheme, token |-> h[3]]])
      BY HelloAssumption, HelloMade
    <2> QED BY <1>3, <2>1, HeartbeatMade
  <1> QED BY <1>2, <1>4

LEMMA SendErrorKeeps == ASSUME WireOK, SendError PROVE WireOK'
  <1>1. PICK head \in Heads, related \in {None, "m-0"}, retryable \in BOOLEAN, code \in ErrorCode :
            Put(error(head[1], head[2], "TBC_TO_TBC", code, 400, related, "details", retryable,
                      Clock(head[3])))
    BY DEF SendError
  <1> DEFINE e == error(head[1], head[2], "TBC_TO_TBC", code, 400, related, "details", retryable,
                        Clock(head[3]))
  <1>2. IsEnvelope(e) /\ e.payload.kind = "ERROR"
    <2>1. "TBC_TO_TBC" \in Direction
      BY DEF Direction
    <2> QED BY <2>1, ErrorEnvelope
  <1> HIDE DEF e
  <1>3. Put(e) /\ message = None
    BY <1>1 DEF e, SendError
  <1> QED BY <1>2, <1>3, PutKeeps

LEMMA SendWelcomeKeeps == ASSUME WireOK, SendWelcome PROVE WireOK'
  <1>1. PICK head \in Heads :
            Put(welcome(head[1], head[2], "tbc", "2.0", {1, 369}, {"zk"}, 30, Clock(head[3])))
    BY DEF SendWelcome
  <1> DEFINE e == welcome(head[1], head[2], "tbc", "2.0", {1, 369}, {"zk"}, 30, Clock(head[3]))
  <1>2. IsEnvelope(e) /\ e.payload.kind = "CONTROL"
    BY WelcomeEnvelope
  <1> HIDE DEF e
  <1>3. Put(e) /\ message = None
    BY <1>1 DEF e, SendWelcome
  <1> QED BY <1>2, <1>3, PutKeeps

(* What is read is what was sent.                                          *)
LEMMA ReceiveKeeps == ASSUME WireOK, Receive PROVE WireOK'
  <1>1. /\ wire # None /\ wire = to_string(sent) /\ IsEnvelope(sent) /\ Carried
        /\ message # None => IsMessage(message)
    BY DEF Receive, WireOK
  <1>2. EnvelopeFits(wire) /\ from_str(wire) = sent
    BY <1>1, EnvelopeRead
  <1>3. received' = [envelope |-> sent,
                     message |-> IF sent.payload.kind = "TGP"
                                 THEN M!from_value(sent.payload.tgp) ELSE None,
                     other |-> IF sent.payload.kind = "TGP"
                               THEN P!from_value(sent.payload.tgp) ELSE None]
    BY <1>2 DEF Receive
  <1>4. received' = [envelope |-> sent, message |-> message, other |-> message]
    <2>1. CASE sent.payload.kind = "TGP"
      <3>1. M!from_value(sent.payload.tgp) = message /\ P!from_value(sent.payload.tgp) = message
        BY <1>1, <2>1, MessageRead, SameDecoding DEF Carried
      <3> QED BY <1>3, <2>1, <3>1
    <2>2. CASE sent.payload.kind # "TGP"
      BY <1>1, <1>3, <2>2 DEF Carried
    <2> QED BY <2>1, <2>2
  <1>5. UNCHANGED <<now, message, sent, wire, tables, answer>>
    BY DEF Receive, tbc
  <1>6. Carried' /\ RoundTrip'
    BY <1>1, <1>4, <1>5 DEF Carried, RoundTrip
  <1> QED BY <1>1, <1>5, <1>6 DEF WireOK, Reply

(* What the handler answers to an envelope e, given the tables b before it *)
Unasked(e) == e.payload.kind = "CONTROL" /\ e.payload.control_type = "WELCOME"
Remembered(e) ==
    \/ e.message_type = "TGP"
    \/ e.message_type = "CONTROL" /\ e.payload.control_type # "CLOSE"

GoodReply(e, r) ==
    /\ IsEnvelope(r.envelope)
    /\ validate(r.envelope) <=> ~ is_empty(e.session_id)
    /\ r.envelope.session_id = e.session_id
    /\ r.envelope.payload.kind \in {"CONTROL", "ERROR"}
    /\ r.envelope.payload.kind = "ERROR" =>
            /\ r.envelope.payload.http_status = r.status
            /\ r.envelope.payload.related_msg_id = e.msg_id
    /\ r.envelope.payload.kind # "ERROR" =>
        /\ r.status = 200 /\ r.tables.open /\ Offered(e) # None
        /\ r.envelope.payload.negotiated_tgp_version \in Offered(e).versions
        /\ r.envelope.payload.negotiated_chains # {}
        /\ r.envelope.payload.negotiated_chains \subseteq Offered(e).chains

GoodAcceptance(e, b, r) ==
    LET repeated == e.msg_id \in b.cache IN
    /\ repeated => r.tables = b /\ r.envelope = None
    /\ e.message_type = "TGP" => b.open \/ repeated
    /\ Remembered(e) => e.msg_id \in r.tables.cache /\ (r.tables.open \/ repeated)

GoodResponse(e, b, r) ==
    /\ IsTables(r.tables) /\ r.status \in {200, 400, 401, 500}
    /\ r.status = 400 => ~ validate(e) \/ Unasked(e)
    /\ r.status = 200 => validate(e) /\ GoodAcceptance(e, b, r)
    /\ r.envelope # None => GoodReply(e, r)

LEMMA ErrorReply ==
    ASSUME NEW e, NEW code \in ErrorCode, NEW status \in {400, 401, 500}, NEW retryable,
           NEW b, NEW ts, validate_iso(ts),
           NEW r, r = error_response(e, code, status, retryable, b, ts)
    PROVE  GoodReply(e, r) /\ r.status = status /\ r.tables = b
  <1> DEFINE x == error(MsgId, e.session_id, "TBC_TO_CLIENT", code, status, e.msg_id,
                        "details", retryable, ts)
  <1>1. r.status = status /\ r.tables = b /\ r.envelope = x
    BY DEF error_response, Response
  <1>2. /\ IsEnvelope(x) /\ x.payload.kind = "ERROR"
        /\ x.msg_id = MsgId /\ x.session_id = e.session_id /\ x.message_type = "ERROR"
        /\ x.payload.http_status = status /\ x.payload.related_msg_id = e.msg_id
        /\ timestamp(x) = TripleTimestamp(ts.mono, ts.unix, ts.iso)
    <2>1. "TBC_TO_CLIENT" \in Direction
      BY DEF Direction
    <2> QED BY <2>1, ErrorEnvelope
  <1> HIDE DEF x
  <1>3. validate(x) <=> ~ is_empty(e.session_id)
    <2>1. validate_iso(timestamp(x))
      BY <1>2 DEF validate_iso, TripleTimestamp, contains_hyphen
    <2>2. x.txip_version = TXIP_VERSION /\ ~ is_empty(x.msg_id)
      BY <1>2 DEF IsEnvelope, MsgId, is_empty
    <2> QED BY <1>2, <2>1, <2>2 DEF validate
  <1> QED BY <1>1, <1>2, <1>3 DEF GoodReply

LEMMA WelcomeReply ==
    ASSUME NEW session_id, NEW version, NEW chains, NEW features, NEW interval,
           NEW ts, validate_iso(ts),
           NEW x, x = welcome(MsgId, session_id, TbcId, version, chains, features, interval, ts)
    PROVE  /\ IsEnvelope(x)
           /\ validate(x) <=> ~ is_empty(session_id)
           /\ x.session_id = session_id /\ x.payload.kind = "CONTROL"
           /\ x.payload.negotiated_tgp_version = version
           /\ x.payload.negotiated_chains = chains
  <1>1. /\ IsEnvelope(x) /\ x.payload.kind = "CONTROL"
        /\ x.msg_id = MsgId /\ x.session_id = session_id /\ x.message_type = "CONTROL"
        /\ x.payload.negotiated_tgp_version = version /\ x.payload.negotiated_chains = chains
        /\ timestamp(x) = TripleTimestamp(ts.mono, ts.unix, ts.iso)
    BY WelcomeEnvelope
  <1>2. validate_iso(timestamp(x))
    BY <1>1 DEF validate_iso, TripleTimestamp, contains_hyphen
  <1>3. x.txip_version = TXIP_VERSION /\ ~ is_empty(x.msg_id)
    BY <1>1 DEF IsEnvelope, MsgId, is_empty
  <1>4. validate(x) <=> ~ is_empty(session_id)
    BY <1>1, <1>2, <1>3 DEF validate
  <1> QED BY <1>1, <1>4

LEMMA NoReply ==
    ASSUME NEW status, NEW b, NEW r, r = Response(status, None, b)
    PROVE  r.envelope = None /\ r.status = status /\ r.tables = b
  BY DEF Response

(* What is recorded is in the cache, and the session stays as it is.       *)
LEMMA Recorded ==
    ASSUME NEW b, IsTables(b), NEW id
    PROVE  /\ IsTables(record_message(b, id)) /\ id \in record_message(b, id).cache
           /\ record_message(b, id).open = b.open
  BY DEF record_message, Tables, IsTables

(* A refusal changes nothing.                                              *)
LEMMA Refused ==
    ASSUME NEW e, NEW b, IsTables(b), NEW r, GoodReply(e, r), r.tables = b,
           \/ r.status \in {401, 500}
           \/ r.status = 400 /\ (~ validate(e) \/ Unasked(e))
    PROVE  GoodResponse(e, b, r)
  BY DEF GoodResponse

(* A message that is processed and accepted without an envelope is in the  *)
(* cache afterwards.                                                       *)
LEMMA Taken ==
    ASSUME NEW e, validate(e), NEW b, IsTables(b), b.open, e.msg_id \notin b.cache,
           NEW r, r = accepted_response(record_message(b, e.msg_id))
    PROVE  GoodResponse(e, b, r)
  <1> DEFINE t == record_message(b, e.msg_id)
  <1>1. IsTables(t) /\ e.msg_id \in t.cache /\ t.open = b.open
    BY Recorded
  <1> HIDE DEF t
  <1>2. r.envelope = None /\ r.status = 200 /\ r.tables = t
    BY NoReply DEF accepted_response, t
  <1>3. GoodAcceptance(e, b, r)
    BY <1>1, <1>2 DEF GoodAcceptance
  <1> QED BY <1>1, <1>2, <1>3 DEF GoodResponse

LEMMA HelloAnswers ==
    ASSUME NEW e, validate(e), e.payload.kind = "CONTROL", IsControl(e.payload),
           e.payload.control_type = "HELLO",
           NEW b, IsTables(b), e.msg_id \notin b.cache,
           NEW interval, NEW ts, validate_iso(ts),
           NEW r, r = handle_hello(e, b, interval, ts)
    PROVE  GoodResponse(e, b, r)
  <1> DEFINE version == negotiate_tgp_version(e.payload.supported_tgp_versions)
             chains == negotiate_chains(e.payload.supported_chains)
             yes == TRUE
             t == record_message(Tables(yes, {}), e.msg_id)
  <1>1. CASE None \in {version, chains}
    <2>1. r = error_response(e, "TXIP_INTERNAL_ERROR", 500, yes, b, ts)
      BY <1>1 DEF handle_hello
    <2>2. "TXIP_INTERNAL_ERROR" \in ErrorCode /\ 500 \in {400, 401, 500}
      BY DEF ErrorCode
    <2> HIDE DEF yes
    <2>3. GoodReply(e, r) /\ r.status = 500 /\ r.tables = b
      BY <2>1, <2>2, ErrorReply
    <2> QED BY <2>3, Refused
  <1>2. CASE None \notin {version, chains}
    <2>1. r = Response(200, welcome(MsgId, e.session_id, TbcId, version, chains,
                                    e.payload.features, interval, ts), t)
      BY <1>2 DEF handle_hello
    <2>2. version # None /\ chains # None /\ HelloSound(e.payload)
      BY <1>2 DEF IsControl
    <2>3. /\ version \in e.payload.supported_tgp_versions
          /\ chains = e.payload.supported_chains /\ chains # {}
      BY <2>2 DEF negotiate_tgp_version, negotiate_chains
    <2>4. IsTables(t) /\ e.msg_id \in t.cache /\ t.open
      <3> DEFINE empty == Tables(yes, {})
      <3>1. IsTables(empty) /\ empty.open = yes /\ yes
        BY DEF Tables, IsTables
      <3> HIDE DEF empty, yes
      <3>2. empty.open
        BY <3>1
      <3>3. /\ IsTables(record_message(empty, e.msg_id))
            /\ e.msg_id \in record_message(empty, e.msg_id).cache
            /\ record_message(empty, e.msg_id).open = empty.open
        BY <3>1, Recorded
      <3> QED BY <3>2, <3>3 DEF empty
    <2> HIDE DEF version, chains, t
    <2> DEFINE x == welcome(MsgId, e.session_id, TbcId, version, chains,
                            e.payload.features, interval, ts)
    <2>5. r.status = 200 /\ r.tables = t /\ r.envelope = x
      <3> HIDE DEF x
      <3> QED BY <2>1 DEF x, Response
    <2>6. /\ IsEnvelope(x)
          /\ validate(x) <=> ~ is_empty(e.session_id)
          /\ x.session_id = e.session_id /\ x.payload.kind = "CONTROL"
          /\ x.payload.negotiated_tgp_version = version
          /\ x.payload.negotiated_chains = chains
      BY WelcomeReply
    <2>7. /\ Offered(e) # None
          /\ Offered(e).versions = e.payload.supported_tgp_versions
          /\ Offered(e).chains = e.payload.supported_chains
      BY <2>2 DEF Offered, HelloSound
    <2> HIDE DEF x
    <2>8. GoodReply(e, r)
      <3>1. /\ x.payload.negotiated_tgp_version \in Offered(e).versions
            /\ x.payload.negotiated_chains # {}
            /\ x.payload.negotiated_chains \subseteq Offered(e).chains
        BY <2>3, <2>6, <2>7
      <3> QED BY <2>4, <2>5, <2>6, <2>7, <3>1 DEF GoodReply
    <2>9. GoodAcceptance(e, b, r)
      <3>1. e.message_type # "TGP"
        BY DEF validate
      <3> QED BY <2>4, <2>5, <3>1 DEF GoodAcceptance
    <2> QED BY <2>4, <2>5, <2>8, <2>9 DEF GoodResponse
  <1> QED BY <1>1, <1>2

LEMMA ControlAnswers ==
    ASSUME NEW e, validate(e), e.message_type = "CONTROL", IsEnvelope(e),
           NEW b, IsTables(b), e.msg_id \notin b.cache,
           NEW interval, NEW ts, validate_iso(ts),
           NEW r, r = handle_control_message(e, b, interval, ts)
    PROVE  GoodResponse(e, b, r)
  <1>1. e.payload.kind = "CONTROL" /\ IsControl(e.payload)
    BY DEF validate, IsEnvelope, IsPayload
  <1>2. /\ "TXIP_INVALID_ENVELOPE" \in ErrorCode /\ "TXIP_INTERNAL_ERROR" \in ErrorCode
        /\ 400 \in {400, 401, 500} /\ 500 \in {400, 401, 500}
    BY DEF ErrorCode
  <1> DEFINE no == FALSE
             yes == TRUE
  <1>3. CASE e.payload.control_type = "HELLO"
    <2>1. r = handle_hello(e, b, interval, ts)
      BY <1>3 DEF handle_control_message
    <2> QED BY <1>1, <1>3, <2>1, HelloAnswers
  <1>4. CASE e.payload.control_type = "HEARTBEAT"
    <2>1. r = handle_heartbeat(e, b, ts)
      BY <1>4 DEF handle_control_message
    <2>2. CASE b.open
      <3>1. r = accepted_response(record_message(b, e.msg_id))
        BY <2>1, <2>2 DEF handle_heartbeat
      <3> QED BY <2>2, <3>1, Taken
    <2>3. CASE ~ b.open
      <3>1. r = error_response(e, "TXIP_INTERNAL_ERROR", 500, yes, b, ts)
        BY <2>1, <2>3 DEF handle_heartbeat
      <3> HIDE DEF yes
      <3>2. GoodReply(e, r) /\ r.status = 500 /\ r.tables = b
        BY <3>1, <1>2, ErrorReply
      <3> QED BY <3>2, Refused
    <2> QED BY <2>2, <2>3
  <1>5. CASE e.payload.control_type = "CLOSE"
    <2> DEFINE t == Tables(no, {})
    <2>1. r = Response(200, None, t)
      BY <1>5 DEF handle_control_message, handle_close
    <2>2. IsTables(t)
      BY DEF Tables, IsTables
    <2> HIDE DEF t
    <2>3. r.envelope = None /\ r.status = 200 /\ r.tables = t
      BY <2>1, NoReply
    <2>4. GoodAcceptance(e, b, r)
      BY <1>5 DEF GoodAcceptance, Remembered
    <2> QED BY <2>2, <2>3, <2>4 DEF GoodResponse
  <1>6. CASE e.payload.control_type = "WELCOME"
    <2>1. r = error_response(e, "TXIP_INVALID_ENVELOPE", 400, no, b, ts)
      BY <1>6 DEF handle_control_message
    <2> HIDE DEF no
    <2>2. GoodReply(e, r) /\ r.status = 400 /\ r.tables = b
      BY <2>1, <1>2, ErrorReply
    <2> QED BY <1>1, <1>6, <2>2, Refused DEF Unasked
  <1> QED BY <1>1, <1>3, <1>4, <1>5, <1>6 DEF IsControl, ControlPayload

LEMMA HandlerAnswers ==
    ASSUME NEW e, IsEnvelope(e), NEW b, IsTables(b), NEW interval, NEW ts, validate_iso(ts),
           NEW r, r = handle_txip_message(e, b, interval, ts)
    PROVE  GoodResponse(e, b, r)
  <1>1. /\ "TXIP_INVALID_ENVELOPE" \in ErrorCode /\ "TXIP_UNAUTHENTICATED" \in ErrorCode
        /\ 400 \in {400, 401, 500} /\ 401 \in {400, 401, 500}
    BY DEF ErrorCode
  <1> DEFINE no == FALSE
  <1>2. CASE ~ validate(e)
    <2>1. r = error_response(e, "TXIP_INVALID_ENVELOPE", 400, no, b, ts)
      BY <1>2 DEF handle_txip_message
    <2> HIDE DEF no
    <2>2. GoodReply(e, r) /\ r.status = 400 /\ r.tables = b
      BY <2>1, <1>1, ErrorReply
    <2> QED BY <1>2, <2>2, Refused
  <1>3. CASE validate(e) /\ is_duplicate_message(b, e.msg_id)
    <2>1. r = accepted_response(b) /\ e.msg_id \in b.cache
      BY <1>3 DEF handle_txip_message, is_duplicate_message
    <2>2. r.envelope = None /\ r.status = 200 /\ r.tables = b
      BY <2>1, NoReply DEF accepted_response
    <2>3. GoodAcceptance(e, b, r)
      BY <2>1, <2>2 DEF GoodAcceptance
    <2> QED BY <1>3, <2>2, <2>3 DEF GoodResponse
  <1>4. CASE validate(e) /\ ~ is_duplicate_message(b, e.msg_id)
    <2>1. r = Route(e, b, interval, ts) /\ e.msg_id \notin b.cache
      BY <1>4 DEF handle_txip_message, is_duplicate_message
    <2>2. CASE e.message_type = "CONTROL"
      <3>1. r = handle_control_message(e, b, interval, ts)
        BY <2>1, <2>2 DEF Route
      <3> QED BY <1>4, <2>1, <2>2, <3>1, ControlAnswers
    <2>3. CASE e.message_type = "TGP"
      <3>1. r = handle_tgp_message(e, b, ts)
        BY <2>1, <2>3 DEF Route
      <3>2. CASE b.open
        <4>1. r = accepted_response(record_message(b, e.msg_id))
          BY <3>1, <3>2 DEF handle_tgp_message
        <4> QED BY <1>4, <2>1, <3>2, <4>1, Taken
      <3>3. CASE ~ b.open
        <4>1. r = error_response(e, "TXIP_UNAUTHENTICATED", 401, no, b, ts)
          BY <3>1, <3>3 DEF handle_tgp_message
        <4> HIDE DEF no
        <4>2. GoodReply(e, r) /\ r.status = 401 /\ r.tables = b
          BY <4>1, <1>1, ErrorReply
        <4> QED BY <4>2, Refused
      <3> QED BY <3>2, <3>3
    <2>4. CASE e.message_type = "ERROR"
      <3>1. r = accepted_response(b)
        BY <2>1, <2>4 DEF Route
      <3>2. r.envelope = None /\ r.status = 200 /\ r.tables = b
        BY <3>1, NoReply DEF accepted_response
      <3>3. GoodAcceptance(e, b, r)
        BY <2>1, <2>4 DEF GoodAcceptance, Remembered
      <3> QED BY <1>4, <3>2, <3>3 DEF GoodResponse
    <2> QED BY <2>2, <2>3, <2>4 DEF IsEnvelope, MessageType
  <1> QED BY <1>2, <1>3, <1>4

(* The TBC's answer fits the envelope it has read.                         *)
LEMMA AnswerKeeps == ASSUME WireOK, Answer PROVE WireOK'
  <1> DEFINE e == received.envelope
             ts == Clock(UtcText)
             r == handle_txip_message(e, tables, 30, ts)
             hello == Offered(e)
             kind == IF e.message_type = e.payload.kind THEN e.payload.kind ELSE None
             control == IF e.payload.kind = "CONTROL" THEN e.payload.control_type ELSE None
             a == [msg_id |-> e.msg_id, session_id |-> e.session_id, iso |-> e.timestamp_iso,
                   kind |-> kind, control |-> control, hello |-> hello, before |-> tables,
                   status |-> r.status]
  <1>1. /\ answer' = a /\ tables' = r.tables /\ sent' = r.envelope
        /\ wire' = IF r.envelope = None THEN None ELSE to_string(r.envelope)
        /\ message' = None /\ received' = None /\ now' = now
    BY DEF Answer
  <1>2. /\ e = sent /\ IsEnvelope(e) /\ IsTables(tables) /\ now \in 1..MaxNow
    BY DEF Answer, WireOK, RoundTrip
  <1>3. validate_iso(ts)
    BY DEF Clock, UtcText, TripleTimestamp, validate_iso
  <1>4. GoodResponse(e, tables, r)
    <2> HIDE DEF e, ts
    <2> QED BY <1>2, <1>3, HandlerAnswers
  <1>5. /\ a.msg_id = e.msg_id /\ a.session_id = e.session_id /\ a.iso = e.timestamp_iso
        /\ a.kind = kind /\ a.control = control /\ a.hello = hello /\ a.status = r.status
        /\ a.before = tables
    OBVIOUS
  <1> HIDE DEF r, a
  <1>6. Answered(a, r.tables, r.envelope)
    <2>1. a.status \in {200, 400, 401, 500}
      BY <1>4, <1>5 DEF GoodResponse
    <2>2. ASSUME ~ is_empty(a.msg_id), ~ is_empty(a.session_id), a.iso.T, a.iso.tail = "Z",
                 a.kind # None, a.control # "WELCOME"
          PROVE  a.status # 400
      <3>1. validate_iso(timestamp(e))
        BY <1>5, <2>2 DEF validate_iso, timestamp, TripleTimestamp
      <3>2. e.message_type = e.payload.kind
        BY <1>5, <2>2
      <3>3. validate(e)
        BY <1>2, <1>5, <2>2, <3>1, <3>2 DEF validate, IsEnvelope
      <3>4. ~ Unasked(e)
        BY <1>5, <2>2 DEF Unasked
      <3> QED BY <1>4, <1>5, <3>3, <3>4 DEF GoodResponse
    <2>3. ASSUME a.status = 200 PROVE Accepted(a, r.tables, r.envelope)
      <3>1. validate(e) /\ GoodAcceptance(e, tables, r)
        BY <1>4, <1>5, <2>3 DEF GoodResponse
      <3>2. a.kind = e.message_type /\ a.kind = e.payload.kind
        BY <1>5, <3>1 DEF validate
      <3>3. a.kind = "CONTROL" => a.control = e.payload.control_type
        BY <1>5, <3>2
      <3> QED BY <1>5, <3>1, <3>2, <3>3 DEF GoodAcceptance, Remembered, Accepted
    <2> QED BY <2>1, <2>2, <2>3 DEF Answered
  <1>7. ASSUME r.envelope # None PROVE /\ IsEnvelope(sent') /\ wire' = to_string(sent')
                                       /\ Carried' /\ Reply(sent, answer)'
    <2>1. GoodReply(e, r)
      BY <1>4, <1>7 DEF GoodResponse
    <2>2. /\ sent' = r.envelope /\ wire' = to_string(r.envelope) /\ message' = None
          /\ tables' = r.tables
      BY <1>1, <1>7
    <2>3. Carried'
      BY <2>1, <2>2 DEF Carried, GoodReply
    <2>4. answer' = a
      BY <1>1
    <2> QED BY <2>1, <2>2, <2>3, <2>4, <1>5 DEF GoodReply, Reply
  <1>8. IsTables(r.tables)
    BY <1>4 DEF GoodResponse
  <1>9. (answer # None => Answered(answer, tables, sent))'
    BY <1>1, <1>6
  <1> QED BY <1>1, <1>2, <1>7, <1>8, <1>9 DEF WireOK

(* Every action keeps the invariant.                                       *)
LEMMA WireOKStep == WireOK /\ [Next]_vars => WireOK'
  <1> SUFFICES ASSUME WireOK, [Next]_vars PROVE WireOK'
    OBVIOUS
  <1>1. CASE Query
    <2>1. PICK m : Idle /\ IsMessage(m) /\ Compose(m)
      BY <1>1, QueryMade DEF Query
    <2> QED BY <2>1, ComposeKeeps
  <1>2. CASE Offer
    <2>1. PICK m : Idle /\ IsMessage(m) /\ Compose(m)
      BY <1>2, OfferMade DEF Offer
    <2> QED BY <2>1, ComposeKeeps
  <1>3. CASE Settle
    <2>1. PICK m : Idle /\ IsMessage(m) /\ Compose(m)
      BY <1>3, SettleMade DEF Settle
    <2> QED BY <2>1, ComposeKeeps
  <1>4. CASE Error
    <2>1. PICK m : Idle /\ IsMessage(m) /\ Compose(m)
      BY <1>4, ErrorMade DEF Error
    <2> QED BY <2>1, ComposeKeeps
  <1>5. CASE Tick
    BY <1>5, ClockAssumption DEF Tick, WireOK, tbc, Carried, RoundTrip, Reply
  <1>6. CASE UNCHANGED vars
    BY <1>6 DEF vars, WireOK, Carried, RoundTrip, Reply
  <1> QED BY <1>1, <1>2, <1>3, <1>4, <1>5, <1>6, BuildKeeps, SendTgpKeeps, SendControlKeeps,
             SendErrorKeeps, SendWelcomeKeeps, ReceiveKeeps, AnswerKeeps DEF Next

THEOREM WireOKCorrect == Spec => []WireOK
  <1>1. Init => WireOK
    <2>1. ASSUME NEW o \in BOOLEAN, NEW c PROVE IsTables(Tables(o, c))
      BY DEF Tables, IsTables
    <2> QED BY <2>1, ClockAssumption DEF Init, WireOK
  <1> QED BY <1>1, WireOKStep, PTL DEF Spec

(* The message, the envelope and what was read have the shape of their     *)
(* structs, whatever their fields hold.                                    *)
THEOREM TypeCorrect == Spec => []TypeOK
  <1>1. ASSUME NEW m, IsMessage(m) PROVE MessageOK(m)
    <2>1. DOMAIN m = Fields(m.phase) /\ m.phase \in DOMAIN M!TGPMessage
      BY <1>1, SameStructs DEF IsMessage, IsStruct
    <2> QED BY <2>1 DEF MessageOK, Fields
  <1>2. ASSUME NEW e, IsEnvelope(e) PROVE EnvelopeOK(e)
    <2>1. DOMAIN e = EnvelopeFields \cup EnvelopeOptions
      BY <1>2 DEF IsEnvelope, IsStruct
    <2> QED BY <1>2, <2>1 DEF IsEnvelope, IsPayload, EnvelopeOK
  <1>3. WireOK => TypeOK
    <2> SUFFICES ASSUME WireOK PROVE TypeOK
      OBVIOUS
    <2>1. message # None => MessageOK(message)
      BY <1>1 DEF WireOK
    <2>2. sent # None \/ wire # None => EnvelopeOK(sent)
      BY <1>2 DEF WireOK
    <2>3. received # None =>
            /\ EnvelopeOK(received.envelope)
            /\ \A m \in {received.message, received.other} : m # None => MessageOK(m)
      BY <2>1, <2>2 DEF WireOK, RoundTrip
    <2> QED BY <2>1, <2>2, <2>3 DEF WireOK, IsTables, Answered, TypeOK
  <1> QED BY <1>3, WireOKCorrect, PTL

(* The receiver reads the envelope and the message that were sent, with    *)
(* either implementation, whatever their fields hold and whatever Options  *)
(* are set.                                                                *)
THEOREM RoundTripCorrect == Spec => []RoundTrip
  <1>1. WireOK => RoundTrip
    BY DEF WireOK, RoundTrip
  <1> QED BY <1>1, WireOKCorrect, PTL

(* The answers of the HTTP handler fit the requests.                       *)
THEOREM AnswersFitCorrect == Spec => []AnswersFit
  <1>1. WireOK => AnswersFit
    <2> SUFFICES ASSUME WireOK, answer # None PROVE AnswersFit
      BY DEF AnswersFit
    <2>1. Answered(answer, tables, sent)
      BY DEF WireOK
    <2>2. received # None => received.envelope = sent /\ Reply(sent, answer)
      BY DEF WireOK, RoundTrip
    <2>3. ASSUME received # None PROVE
            LET e == received.envelope IN
            /\ validate(e) <=> ~ is_empty(answer.session_id)
            /\ e.session_id = answer.session_id
            /\ e.payload.kind = "ERROR" =>
                    /\ e.payload.http_status = answer.status
                    /\ e.payload.related_msg_id = answer.msg_id
            /\ e.payload.kind # "ERROR" =>
                /\ answer.status = 200 /\ tables.open /\ answer.hello # None
                /\ e.payload.negotiated_tgp_version \in answer.hello.versions
                /\ e.payload.negotiated_chains # {}
                /\ e.payload.negotiated_chains \subseteq answer.hello.chains
      BY <2>2, <2>3 DEF Reply
    <2> QED BY <2>1, <2>3 DEF AnswersFit, Answered, Accepted
  <1> QED BY <1>1, WireOKCorrect, PTL

-----------------------------------------------------------------------------
(* An expiry in UTC passes both checks of an economic envelope or neither. *)
LEMMA EnvelopesAlike ==
    ASSUME NEW e, e.expiry # None => e.expiry.tail = "Z"
    PROVE  M!EnvelopeValidate(e) <=> P!EnvelopeValid(e)
  <1>1. e.expiry # None => (M!ExpiryPlausible(e.expiry) <=> P!ExpiryInUtc(e.expiry))
    BY DEF M!ExpiryPlausible, P!ExpiryInUtc
  <1> QED BY <1>1 DEF M!EnvelopeValidate, P!EnvelopeValid

(* What the tgp module accepts protocol.rs accepts, but for an expiry that *)
(* is not written with Z.                                                  *)
LEMMA AcceptedByProtocol ==
    ASSUME NEW m, Shape(m), M!validate(m), ~ NotUtc(m) PROVE P!validate(m)
  <1>1. CASE m.phase = "QUERY"
    BY <1>1 DEF M!validate, P!validate, M!QueryValid, P!QueryValid, M!validate_non_empty,
       M!validate_positive_amount, M!validate_address, M!is_empty, P!is_empty
  <1>2. CASE m.phase = "OFFER"
    <2>1. M!OfferValid(m)
      BY <1>2 DEF M!validate
    <2>2. P!EnvelopeValid(m.economic_envelope)
      BY <1>2, <2>1, EnvelopesAlike DEF M!OfferValid, NotUtc
    <2>3. P!OfferValid(m)
      BY <1>2, <2>1, <2>2 DEF M!OfferValid, P!OfferValid, M!validate_non_empty,
         M!validate_positive_amount, M!validate_address, M!is_empty, P!is_empty
    <2> QED BY <1>2, <2>3 DEF P!validate
  <1>3. CASE m.phase = "SETTLE"
    BY <1>3 DEF M!validate, P!validate, M!SettleValid, P!SettleValid, M!validate_non_empty,
       M!validate_transaction_hash, M!is_empty, P!is_empty
  <1>4. CASE m.phase = "ERROR"
    BY <1>4 DEF M!validate, P!validate, M!ErrorValid, P!ErrorValid, M!validate_non_empty,
       M!is_empty, P!is_empty
  <1> QED BY <1>1, <1>2, <1>3, <1>4 DEF Shape, Phases

(* What protocol.rs accepts the tgp module accepts, but for a hash or an   *)
(* address with other characters than hexadecimal digits.                  *)
LEMMA AcceptedByTgp ==
    ASSUME NEW m, Shape(m), P!validate(m), ~ NotHex(m) PROVE M!validate(m)
  <1>1. CASE m.phase = "QUERY"
    BY <1>1 DEF M!validate, P!validate, M!QueryValid, P!QueryValid, M!validate_non_empty,
       M!validate_positive_amount, M!validate_address, M!is_empty, P!is_empty, NotHex, Shape
  <1>2. CASE m.phase = "OFFER"
    <2>1. P!OfferValid(m)
      BY <1>2 DEF P!validate
    <2>2. M!EnvelopeValidate(m.economic_envelope)
      BY <2>1, EnvelopesAlike DEF P!OfferValid, P!EnvelopeValid, P!ExpiryInUtc
    <2>3. M!OfferValid(m)
      BY <1>2, <2>1, <2>2 DEF M!OfferValid, P!OfferValid, M!validate_non_empty,
         M!validate_positive_amount, M!validate_address, M!is_empty, P!is_empty, NotHex, Shape
    <2> QED BY <1>2, <2>3 DEF M!validate
  <1>3. CASE m.phase = "SETTLE"
    BY <1>3 DEF M!validate, P!validate, M!SettleValid, P!SettleValid, M!validate_non_empty,
       M!validate_transaction_hash, M!is_empty, P!is_empty, NotHex, Shape
  <1>4. CASE m.phase = "ERROR"
    BY <1>4 DEF M!validate, P!validate, M!ErrorValid, P!ErrorValid, M!validate_non_empty,
       M!is_empty, P!is_empty
  <1> QED BY <1>1, <1>2, <1>3, <1>4 DEF Shape, Phases

(* A transaction that the tgp module accepts fits a TxRef. *)
LEMMA AcceptedByTxRef ==
    ASSUME NEW m, M!validate(m), m.phase = "SETTLE", m.layer8_tx # None
    PROVE  Tx!validate_txid(m.layer8_tx)
  <1>1. M!SettleValid(m)
    BY DEF M!validate
  <1> QED BY <1>1 DEF M!SettleValid, M!validate_transaction_hash, Tx!validate_txid

(* Whatever travels, both implementations read the same of it. *)
LEMMA ReadAlikeStep == ReadAlike /\ [Next]_vars => ReadAlike'
  <1> SUFFICES ASSUME ReadAlike, [Next]_vars PROVE ReadAlike'
    OBVIOUS
  <1>1. CASE Receive
    <2> DEFINE e == from_str(wire)
               isTgp == EnvelopeFits(wire) /\ e.payload.kind = "TGP"
               object == e.payload.tgp
    <2>1. /\ received'.message = IF isTgp THEN M!from_value(object) ELSE None
          /\ received'.other = IF isTgp THEN P!from_value(object) ELSE None
      BY <1>1 DEF Receive
    <2> HIDE DEF isTgp, object, e
    <2> QED BY <2>1, SameDecoding, DecodedShape DEF ReadAlike
  <1>2. CASE received' \in {received, None}
    BY <1>2 DEF ReadAlike
  <1>3. Next => Receive \/ received' \in {received, None}
    <2>0. \A m : Compose(m) => received' = received
      BY DEF Compose
    <2>1. Query \/ Offer \/ Settle \/ Error => received' = received
      <3>1. Query => received' = received
        BY <2>0, ZenonT(60) DEF Query
      <3>2. Offer => received' = received
        BY <2>0, ZenonT(60) DEF Offer
      <3>3. Settle => received' = received
        BY <2>0, ZenonT(60) DEF Settle
      <3>4. Error => received' = received
        BY <2>0, ZenonT(60) DEF Error
      <3> QED BY <3>1, <3>2, <3>3, <3>4
    <2>2. Build \/ Tick => received' = received
      BY DEF Build, Tick
    <2>e. \A e : Put(e) => received' = received
      BY DEF Put
    <2>3. SendTgp \/ SendControl => received' = received
      <3>1. SendTgp => received' = received
        BY <2>e, ZenonT(60) DEF SendTgp
      <3>2. SendControl => received' = received
        BY <2>e, ZenonT(60) DEF SendControl
      <3> QED BY <3>1, <3>2
    <2>4. SendError \/ SendWelcome => received' = received
      BY DEF SendError, SendWelcome, Put
    <2>5. Answer => received' = None
      BY DEF Answer
    <2> QED BY <2>1, <2>2, <2>3, <2>4, <2>5 DEF Next
  <1> QED BY <1>1, <1>2, <1>3 DEF vars

(* The two implementations accept the same messages, whatever their fields *)
(* hold, but for the two differences named.                                *)
THEOREM ImplementationsAgreeCorrect == Spec => []ImplementationsAgree
  <1>1. Init => ReadAlike
    BY DEF Init, ReadAlike
  <1>2. ReadAlike => ImplementationsAgree
    BY AcceptedByProtocol, AcceptedByTgp, AcceptedByTxRef DEF ReadAlike, ImplementationsAgree
  <1> QED BY <1>1, <1>2, ReadAlikeStep, PTL DEF Spec

(* A part of at most 10000 in 10000. *)
Part(a, b) == (a * b) \div 10000

(* It is no more than the whole. *)
LEMMA PartBounded ==
    ASSUME NEW a \in Nat, NEW b \in Nat, b <= 10000 PROVE Part(a, b) \in Nat /\ Part(a, b) <= a
  <1> DEFINE ab == a * b
  <1>1. ab \in Nat /\ ab <= a * 10000
    OBVIOUS
  <1>2. Part(a, b) = ab \div 10000
    BY DEF Part
  <1> HIDE DEF ab
  <1> QED BY <1>1, <1>2

(* A number within the width is not cut. *)
LEMMA WithinWidth == ASSUME NEW q \in Nat, NEW width \in Nat \ {0}, q < width PROVE q % width = q
  OBVIOUS

(* The fee of a valid envelope is never more than the amount: neither the  *)
(* product nor the cut to an amount's width gets it wrong, at any width.   *)
THEOREM FeeBounded ==
    ASSUME NEW amount \in 0..(AmountSpace - 1), NEW e, e.max_fees_bps \in Nat,
           M!EnvelopeValidate(e)
    PROVE  M!calculate_max_fee(e, amount) <= amount
  <1> DEFINE b == e.max_fees_bps
  <1>1. amount \in Nat /\ AmountSpace \in Nat \ {0} /\ amount < AmountSpace
    BY AmountAssumption
  <1>2. b <= 10000
    BY DEF M!EnvelopeValidate
  <1>3. b \in Nat
    OBVIOUS
  <1>4. M!calculate_max_fee(e, amount) = Part(amount, b) % AmountSpace
    BY DEF M!calculate_max_fee, Part
  <1> HIDE DEF b
  <1>5. Part(amount, b) \in Nat /\ Part(amount, b) <= amount
    BY <1>1, <1>2, <1>3, PartBounded
  <1>6. Part(amount, b) % AmountSpace = Part(amount, b)
    BY <1>1, <1>5, WithinWidth
  <1> QED BY <1>4, <1>5, <1>6

(* Comparing two timestamps written alike compares their local times; at   *)
(* the same local time and in UTC, the ways in which UTC is written.       *)
LEMMA LaterText ==
    ASSUME NEW x, x.local \in Nat, x.offset \in Nat,
           NEW c, c.local \in Nat, c.tail \in {"Z", "+"}, c.offset = 0
    PROVE  /\ c.local < x.local => ~ M!string_later(c, x)
           /\ c.local > x.local => M!string_later(c, x)
           /\ c.local = x.local /\ x.tail \in {"Z", "+"} =>
                (M!string_later(c, x) <=> c.tail = "Z" /\ x.tail = "+")
  <1>1. M!Rank("Z") = 3 /\ M!Rank("+") = 1
    BY DEF M!Rank
  <1>2. ASSUME x.tail \in {"Z", "+"}
        PROVE  M!Rank(c.tail) > M!Rank(x.tail) <=> c.tail = "Z" /\ x.tail = "+"
    <2>1. CASE c.tail = "Z" /\ x.tail = "Z"
      BY <1>1, <2>1
    <2>2. CASE c.tail = "Z" /\ x.tail = "+"
      BY <1>1, <2>2
    <2>3. CASE c.tail = "+" /\ x.tail = "Z"
      BY <1>1, <2>3
    <2>4. CASE c.tail = "+" /\ x.tail = "+"
      BY <1>1, <2>4
    <2> QED BY <1>2, <2>1, <2>2, <2>3, <2>4
  <1>3. ~ (c.offset > x.offset)
    OBVIOUS
  <1>4. c.local < x.local => ~ M!string_later(c, x)
    BY DEF M!string_later
  <1>5. c.local > x.local => M!string_later(c, x)
    BY DEF M!string_later
  <1>6. c.local = x.local => ~ (c.local > x.local)
    OBVIOUS
  <1>7. c.local = x.local /\ x.tail \in {"Z", "+"} =>
            (M!string_later(c, x) <=> c.tail = "Z" /\ x.tail = "+")
    BY <1>2, <1>3, <1>6 DEF M!string_later
  <1> QED BY <1>4, <1>5, <1>7

LEMMA ExpiryCompared ==
    ASSUME NEW e, e.expiry \in Timestamp, e.expiry # None, NEW t \in Nat
    PROVE  ExpiryTells(e, t)
  <1> SUFFICES ASSUME NEW z \in {"Z", "+"}
      PROVE LET clock == [e.expiry EXCEPT !.local = t, !.tail = z, !.offset = 0]
                expired == M!is_expired(e, clock)
            IN  /\ t < e.expiry.local /\ t < Instant(e.expiry) => ~ expired
                /\ t > e.expiry.local /\ t > Instant(e.expiry) => expired
                /\ InUtc(e.expiry) =>
                        (expired <=> \/ t > e.expiry.local
                                     \/ t = e.expiry.local /\ z = "Z" /\ e.expiry.tail = "+")
    BY DEF ExpiryTells
  <1> DEFINE c == [e.expiry EXCEPT !.local = t, !.tail = z, !.offset = 0]
             x == e.expiry
  <1>1. x.local \in Nat /\ x.offset \in Nat
    BY DEF Timestamp
  <1>2. c.local = t /\ c.tail = z /\ c.offset = 0
    BY DEF Timestamp
  <1>3. M!is_expired(e, c) <=> M!string_later(c, x)
    <2> HIDE DEF c
    <2> QED BY DEF M!is_expired
  <1> HIDE DEF c, x
  <1>4. /\ t < x.local => ~ M!string_later(c, x)
        /\ t > x.local => M!string_later(c, x)
        /\ t = x.local /\ x.tail \in {"Z", "+"} =>
                (M!string_later(c, x) <=> z = "Z" /\ x.tail = "+")
    BY <1>1, <1>2, LaterText
  <1>5. InUtc(x) => x.tail \in {"Z", "+"}
    BY DEF InUtc
  <1>6. t < x.local \/ t = x.local \/ t > x.local
    BY <1>1
  <1>7. InUtc(x) =>
            (M!string_later(c, x) <=> \/ t > x.local
                                      \/ t = x.local /\ z = "Z" /\ x.tail = "+")
    <2>1. CASE t < x.local
      <3>1. ~ (t > x.local) /\ t # x.local
        BY <1>1, <2>1
      <3> QED BY <1>4, <2>1, <3>1
    <2>2. CASE t = x.local
      <3>1. ~ (t > x.local)
        BY <1>1, <2>2
      <3> QED BY <1>4, <1>5, <2>2, <3>1
    <2>3. CASE t > x.local
      BY <1>4, <2>3
    <2> QED BY <1>6, <2>1, <2>2, <2>3
  <1> QED BY <1>3, <1>4, <1>7 DEF c, x

(* The fee of an OFFER that tgp accepts is never more than its amount, and *)
(* comparing the texts tells rightly whether it has expired but between    *)
(* the two moments named, whatever its fields hold.                        *)
THEOREM OfferTermsHoldCorrect == Spec => []OfferTermsHold
  <1>1. WireOK => OfferTermsHold
    <2> SUFFICES ASSUME WireOK, received # None, received.message # None,
                        received.message.phase = "OFFER"
                 PROVE  OfferTermsHold
      BY DEF OfferTermsHold
    <2> DEFINE m == received.message
               e == m.economic_envelope
    <2>1. IsMessage(m) /\ m.phase = "OFFER" /\ now \in Nat
      BY ClockAssumption DEF WireOK, RoundTrip
    <2>2. /\ m.amount \in 0..(AmountSpace - 1) /\ e.max_fees_bps \in Nat
          /\ e.expiry # None => e.expiry \in Timestamp
      BY <2>1, EnvelopeAssumption DEF IsMessage, TermsSound
    <2> HIDE DEF m
    <2>3. M!validate(m) => M!EnvelopeValidate(e)
      BY <2>1 DEF M!validate, M!OfferValid
    <2>4. M!validate(m) => M!calculate_max_fee(e, m.amount) <= m.amount
      BY <2>2, <2>3, FeeBounded
    <2>5. e.expiry # None => ExpiryTells(e, now)
      BY <2>1, <2>2, ExpiryCompared
    <2> QED BY <2>4, <2>5 DEF OfferTermsHold, m
  <1> QED BY <1>1, WireOKCorrect, PTL
=============================================================================

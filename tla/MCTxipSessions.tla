---------------------------- MODULE MCTxipSessions ----------------------------
(* Small instances of TxipSessions for TLC. *)
EXTENDS TxipSessions

CONSTANTS s1, m1, m2, h1, h2, h3, cleaner

OneSession == {s1}
TwoMessages == {m1, m2}
ThreeRequests == {h1, h2, h3}

Env(m, k) == [session_id |-> s1, msg_id |-> m, kind |-> k]

(* Every kind of envelope. *)
AllTraffic == {Env(m1, "HELLO")} \cup {Env(m2, k) : k \in Kinds \ {"HELLO"}}

(* HELLO once, TGP as often as the client likes. *)
Retries == {Env(m1, "HELLO"), Env(m2, "TGP")}
=============================================================================

------------------------------ MODULE WireFormats ------------------------------
(***************************************************************************)
(* The canonical bytes of wire v1 and wire v2 (aex-core/src/wire.rs and    *)
(* wire_v2.rs).  A text is a sequence of pieces; a line feed is a piece of *)
(* its own, so that a field which holds one can run into the next line.    *)
(* A nonce is counted in pieces of 32 hex digits.                          *)
(***************************************************************************)
EXTENDS Naturals, Sequences

CONSTANTS
    MaxNonceLen,   \* MAX_NONCE_LEN, in pieces of MIN_NONCE_LEN digits
    HexPieces      \* the pieces that are hex digits

LineBreaking == {"LF", "CR", "NUL", "NONASCII"}

ASSUME NonceAssumption ==
    MaxNonceLen \in Nat \ {0} /\ HexPieces \subseteq STRING \ LineBreaking

\* What the functions return instead of bytes.
Refused == <<>>

Text == Seq(STRING)
Number == STRING \ LineBreaking

validate_ascii_line(s) == s # <<>> /\ \A i \in DOMAIN s : s[i] \notin LineBreaking

\* Faulty variant: an optional field is taken as it is.
OptUnchecked(s) == TRUE

validate_ascii_line_opt(s) == s = <<>> \/ validate_ascii_line(s)

validate_nonce(n) == Len(n) \in 1 .. MaxNonceLen /\ \A i \in DOMAIN n : n[i] \in HexPieces

-----------------------------------------------------------------------------
(* Lines: what each looks like, and whether its field may stand in it *)

Result(valid) == IF valid THEN "ok" ELSE "err"

Line(key, s) == [key |-> key, value |-> s, check |-> Result(validate_ascii_line(s))]
OptLine(key, s) == [key |-> key, value |-> s, check |-> Result(validate_ascii_line_opt(s))]
LineAmong(key, s, allowed) == [key |-> key, value |-> s, check |-> Result(s \in allowed)]
NonceLine(n) == [key |-> "nonce=", value |-> n, check |-> Result(validate_nonce(n))]
NumberLine(key, n) == [key |-> key, value |-> <<n>>, check |-> "ok"]

LineText(lines, i) ==
    IF i \in DOMAIN lines THEN <<"LF", lines[i].key>> \o lines[i].value ELSE <<>>

\* One line after the other; no message has more than seven.
Joined(lines) ==
    LineText(lines, 1) \o (LineText(lines, 2) \o (LineText(lines, 3) \o (LineText(lines, 4)
        \o (LineText(lines, 5) \o (LineText(lines, 6) \o LineText(lines, 7))))))

Canonical(title, lines) ==
    IF \A i \in DOMAIN lines : lines[i].check = "ok" THEN <<title>> \o Joined(lines) ELSE Refused

Actions == {<<"download">>, <<"ack">>, <<"inbox">>, <<"request_ticket">>}
Outcomes == {<<"accepted">>, <<"rejected">>}

RegistrationLines(m) ==
    <<Line("pub=", m.pub), Line("org=", m.org), Line("name=", m.name),
      NonceLine(m.nonce), NumberLine("ts=", m.ts)>>

IntentLines(m) ==
    <<Line("sender=", m.sender), Line("recipient=", m.recipient),
      NumberLine("size=", m.size), OptLine("mime=", m.mime),
      OptLine("filename=", m.filename), NonceLine(m.nonce), NumberLine("ts=", m.ts)>>

TicketLines(m) ==
    <<Line("transfer=", m.transfer), Line("recipient=", m.recipient),
      Line("data_plane=", m.data_plane), NumberLine("expires=", m.expires),
      NonceLine(m.nonce)>>

\* The new key is a line of its own unless it is the old one.
RotationLines(m) ==
    <<Line("agent=", m.agent), Line("old_pub=", m.old_pub),
      [Line("new_pub=", m.new_pub) EXCEPT
           !.check = IF m.new_pub = m.old_pub THEN "err" ELSE @],
      NonceLine(m.nonce), NumberLine("ts=", m.ts)>>

ReceiptLines(m) ==
    <<Line("recipient=", m.recipient), Line("transfer=", m.transfer),
      LineAmong("action=", m.action, Actions), NonceLine(m.nonce), NumberLine("ts=", m.ts)>>

DecisionRequestLines(m) ==
    <<Line("recipient=", m.recipient), Line("transfer=", m.transfer),
      Line("decision=", m.decision), NumberLine("eta_secs=", m.eta),
      NonceLine(m.nonce), NumberLine("ts=", m.ts)>>

DecisionResponseLines(m) ==
    <<Line("recipient=", m.recipient), Line("transfer=", m.transfer),
      Line("decision=", m.decision), LineAmong("outcome=", m.outcome, Outcomes),
      OptLine("reason=", m.reason), NonceLine(m.nonce), NumberLine("ts=", m.ts)>>

-----------------------------------------------------------------------------
(* The messages *)

RegistrationMessage ==
    [kind : {"register", "register_v2"},
     pub : Text, org : Text, name : Text, nonce : Text, ts : Number]
IntentMessage ==
    [kind : {"intent", "intent_v2"}, sender : Text, recipient : Text, size : Number,
     mime : Text, filename : Text, nonce : Text, ts : Number]
TicketMessage ==
    [kind : {"ticket", "ticket_v2"}, transfer : Text, recipient : Text,
     data_plane : Text, expires : Number, nonce : Text]
RotationMessage ==
    [kind : {"rotate", "rotate_v2"},
     agent : Text, old_pub : Text, new_pub : Text, nonce : Text, ts : Number]
ReceiptMessage ==
    [kind : {"receipt", "receipt_v2"},
     recipient : Text, transfer : Text, action : Text, nonce : Text, ts : Number]
DecisionRequestMessage ==
    [kind : {"decision_request"}, recipient : Text, transfer : Text, decision : Text,
     eta : Number, nonce : Text, ts : Number]
DecisionResponseMessage ==
    [kind : {"decision_response"}, recipient : Text, transfer : Text, decision : Text,
     outcome : Text, reason : Text, nonce : Text, ts : Number]

Message ==
    RegistrationMessage \cup IntentMessage \cup TicketMessage \cup RotationMessage
      \cup ReceiptMessage \cup DecisionRequestMessage \cup DecisionResponseMessage

registration_challenge_bytes(m) == Canonical("spize-register:v1", RegistrationLines(m))
transfer_intent_bytes(m) == Canonical("spize-transfer-intent:v1", IntentLines(m))
data_ticket_bytes(m) == Canonical("spize-data-ticket:v1", TicketLines(m))
rotate_key_challenge_bytes(m) == Canonical("spize-rotate-key:v1", RotationLines(m))
transfer_receipt_bytes(m) == Canonical("spize-transfer-receipt:v1", ReceiptLines(m))

registration_challenge_bytes_v2(m) == Canonical("aex-register:v2", RegistrationLines(m))
transfer_intent_bytes_v2(m) == Canonical("aex-transfer-intent:v2", IntentLines(m))
data_ticket_bytes_v2(m) == Canonical("aex-data-ticket:v2", TicketLines(m))
rotate_key_challenge_bytes_v2(m) == Canonical("aex-rotate-key:v2", RotationLines(m))
transfer_receipt_bytes_v2(m) == Canonical("aex-transfer-receipt:v2", ReceiptLines(m))
decision_request_bytes_v2(m) == Canonical("aex-decision-request:v2", DecisionRequestLines(m))
decision_response_bytes_v2(m) == Canonical("aex-decision-response:v2", DecisionResponseLines(m))

\* The function a message of each kind is given to.
Bytes(m) ==
    CASE m.kind = "register"          -> registration_challenge_bytes(m)
      [] m.kind = "intent"            -> transfer_intent_bytes(m)
      [] m.kind = "ticket"            -> data_ticket_bytes(m)
      [] m.kind = "rotate"            -> rotate_key_challenge_bytes(m)
      [] m.kind = "receipt"           -> transfer_receipt_bytes(m)
      [] m.kind = "register_v2"       -> registration_challenge_bytes_v2(m)
      [] m.kind = "intent_v2"         -> transfer_intent_bytes_v2(m)
      [] m.kind = "ticket_v2"         -> data_ticket_bytes_v2(m)
      [] m.kind = "rotate_v2"         -> rotate_key_challenge_bytes_v2(m)
      [] m.kind = "receipt_v2"        -> transfer_receipt_bytes_v2(m)
      [] m.kind = "decision_request"  -> decision_request_bytes_v2(m)
      [] m.kind = "decision_response" -> decision_response_bytes_v2(m)
=============================================================================

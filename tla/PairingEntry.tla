---------------------------- MODULE PairingEntry ----------------------------
(***************************************************************************)
(* core::PairingEntry: what the user has typed or scanned so far.  An entry*)
(* is a record; each operator is the effect of one method on it.  A text   *)
(* is a sequence of typed characters, "d" for any digit and "." for a dot; *)
(* which texts are a local address or a port is left to the instance.      *)
(***************************************************************************)
EXTENDS Naturals, Sequences

CONSTANTS
    kPairingCodeLength, kMaximumIpLength, kMaximumPortLength,
    LocalHosts,    \* the texts is_local_bridge_ipv4 accepts
    Ports,         \* the texts that read as a port, zero excluded
    Secrets,       \* what QR codes carry
    NoSecret       \* the empty string

ASSUME EntryConstants ==
    /\ {kPairingCodeLength, kMaximumIpLength, kMaximumPortLength} \subseteq Nat \ {0}
    /\ \A ip \in LocalHosts : ip \in Seq({"d", "."}) /\ Len(ip) \in 1 .. kMaximumIpLength
    /\ \A port \in Ports : port \in Seq({"d"}) /\ Len(port) \in 1 .. kMaximumPortLength
    /\ NoSecret \notin Secrets

Endpoints == [host : LocalHosts, port : Ports, secret : Secrets]

Texts(entry) == {entry.code, entry.ip, entry.port}

Entries ==
    [open : BOOLEAN, field : {"code", "ip", "port"},
     code : Seq({"d"}), ip : Seq({"d", "."}), port : Seq({"d"}),
     secret : Secrets \cup {NoSecret}]

\* No text outgrows its field.
Fits(entry) ==
    /\ Len(entry.code) <= kPairingCodeLength
    /\ Len(entry.ip) <= kMaximumIpLength
    /\ Len(entry.port) <= kMaximumPortLength

Emptied(open, field) ==
    [open |-> open, field |-> field, code |-> <<>>, ip |-> <<>>, port |-> <<>>,
     secret |-> NoSecret]

Opened == Emptied(TRUE, "code")

Cancelled(entry) == Emptied(FALSE, entry.field)

selected_value_empty(entry) == entry[entry.field] = <<>>

Selected(entry, field) == IF entry.open THEN [entry EXCEPT !.field = field] ELSE entry

\* decode_pairing_payload has checked the endpoint, so only a closed entry
\* refuses it.
Scanned(entry, endpoint) ==
    IF entry.open
    THEN [entry EXCEPT !.field = "code", !.code = <<>>, !.ip = endpoint.host,
                       !.port = endpoint.port, !.secret = endpoint.secret]
    ELSE entry

\* Whether append takes the character
CanAppend(entry, character) ==
    /\ entry.open
    /\ character = "d" \/ entry.field = "ip"
    /\ Len(entry[entry.field]) <
           CASE entry.field = "code" -> kPairingCodeLength
             [] entry.field = "ip"   -> kMaximumIpLength
             [] entry.field = "port" -> kMaximumPortLength

\* Fault: a typed code leaves the scanned secret in force.
Appended_KeepsSecret(entry, character) ==
    IF CanAppend(entry, character)
    THEN [entry EXCEPT ![entry.field] = Append(@, character)]
    ELSE entry

\* A typed code replaces the scanned secret; a changed address does not.
Appended(entry, character) ==
    IF CanAppend(entry, character)
    THEN [entry EXCEPT ![entry.field] = Append(@, character),
                       !.secret = IF entry.field = "code" THEN NoSecret ELSE @]
    ELSE entry

Erased(entry) ==
    IF entry.open
    THEN [entry EXCEPT ![entry.field] = IF @ = <<>> THEN @
                                        ELSE SubSeq(@, 1, Len(@) - 1),
                       !.secret = NoSecret]
    ELSE entry

\* Whether submit returns an input
CanSubmit(entry) ==
    /\ entry.open
    /\ entry.secret # NoSecret \/ Len(entry.code) = kPairingCodeLength
    /\ entry.ip \in LocalHosts
    /\ entry.port \in Ports

\* What it returns: the address to claim from, and the secret or the code
Submitted(entry) ==
    [host |-> entry.ip, port |-> entry.port,
     material |-> IF entry.secret = NoSecret THEN entry.code ELSE entry.secret,
     uses_qr_secret |-> entry.secret # NoSecret]

=============================================================================

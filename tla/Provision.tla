------------------------------- MODULE Provision -------------------------------
(***************************************************************************)
(* The connect URI of src/internal/provision/provision.go: Profile.URI and *)
(* ParseURI.                                                               *)
(*                                                                         *)
(* A URI is a scheme and a query, and a query gives texts to some of the   *)
(* keys.  Percent-encoding is undone exactly by the parser and left out; a *)
(* text is plain, or the decimal form of a number, or the base64url form   *)
(* of a byte string, or one that is neither.                               *)
(***************************************************************************)
EXTENDS Naturals

CONSTANT NoBytes        \* the empty byte string

Decimal(n)   == [form |-> "decimal", of |-> n]
Base64URL(b) == [form |-> "base64url", of |-> b]
Plain(t)     == [form |-> "plain", of |-> t]
Garbage      == [form |-> "garbage", of |-> ""]
Absent       == [form |-> "absent", of |-> ""]

Profiles(Texts, ByteStrings) ==
  [host : Texts, port : Nat, path : Texts, sni : Texts, psk : ByteStrings, name : Texts]

OrElse(t, default) == IF t = "" THEN default ELSE t

\* Profile.URI: every key but the name is always there, and the server name
\* defaults to the host.
URI(p) ==
  [scheme |-> "arnos",
   host |-> Plain(p.host), port |-> Decimal(p.port), path |-> Plain(p.path),
   sni |-> Plain(OrElse(p.sni, p.host)), psk |-> Base64URL(p.psk),
   name |-> IF p.name = "" THEN Absent ELSE Plain(p.name)]

\* The port: 443 if it is missing or no number.
Atoi(t) == IF t.form = "decimal" THEN t.of ELSE 443

\* url.Values.Get, "" for a missing key.
Get(t) == t.of

\* A missing key decodes to no bytes, without an error.
Decode(t) == IF t.form = "absent" THEN NoBytes ELSE t.of

Failed == [ok |-> FALSE]

\* Another scheme, an empty host or a key that does not decode is
\* refused; path and server name have defaults.
ParseURI(u) ==
  IF u.scheme # "arnos" \/ Get(u.host) = "" \/ u.psk.form = "garbage" THEN Failed
  ELSE [ok |-> TRUE,
        profile |-> [host |-> Get(u.host), port |-> Atoi(u.port),
                     path |-> OrElse(Get(u.path), "/"),
                     sni |-> OrElse(Get(u.sni), Get(u.host)),
                     psk |-> Decode(u.psk), name |-> Get(u.name)]]
=============================================================================

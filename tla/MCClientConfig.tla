---------------------------- MODULE MCClientConfig ----------------------------
(* A small instance of ClientConfig. *)
EXTENDS ClientConfig

\* Two servers, one of them also spelled with a capital letter.
Spellings == [n \in {"", "home", "Home", "work"} |-> IF n = "Home" THEN "home" ELSE n]

\* A URI that the server at "work" has written.
Written(name) ==
  URI([host |-> "work", port |-> 443, path |-> "/", sni |-> "", psk |-> "key", name |-> name])

\* A URI whose key does not decode, one without a host and one of another
\* scheme. Users add a good URI and the first of these; feeds hold the others.
BadKey   == [Written("") EXCEPT !.psk = Garbage]
NoHost   == [Written("") EXCEPT !.host = Absent]
WebPage  == [Written("") EXCEPT !.scheme = "https"]
SomeURIs == {Written("Home"), BadKey}

Hop(scheme, ips) == [scheme |-> scheme, ips |-> ips]
Feed(hops, coding, lines) == [hops |-> hops, coding |-> coding, lines |-> lines]

\* A feed of two good entries, the second named after its host, and feeds that
\* are refused: by scheme, after a redirect, for their encoding, for their lines.
SomeFeeds ==
  LET lines == <<WebPage, Written("Home"), Written("")>>
      web == Hop("https", {"public"})
  IN  {Feed(<<web>>, "base64", lines), Feed(<<Hop("file", {})>>, "plain", lines),
       Feed(<<web, Hop("http", {"public", "private"})>>, "plain", lines),
       Feed(<<web>>, "other", lines), Feed(<<web>>, "plain", <<NoHost>>)}
=============================================================================

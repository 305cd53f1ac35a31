------------------------------- MODULE MCUpdater -------------------------------
(* A small instance of Updater. *)
EXTENDS Updater

V(a, b) == <<Part(a, FALSE), Part(b, FALSE)>>
Short(a) == <<Part(a, FALSE)>>
Long(a, b, c) == V(a, b) \o Short(c)

\* Versions of different lengths, numbers of different lengths, a pre-release.
FeedHistories ==
  {<<V(1, 9), V(1, 10), V(2, 0)>>,
   <<Short(1), Long(1, 0, 1), V(1, 1)>>,
   <<Long(0, 9, 9), Short(1), <<Part(1, FALSE), Part(1, TRUE)>>>>}

\* They are published in order.
ASSUME PublishedInOrder == \A r \in FeedHistories : Ascending(r)

TwoPanels == {<<"p", 1>>, <<"p", 2>>, <<"q", 1>>}
=============================================================================

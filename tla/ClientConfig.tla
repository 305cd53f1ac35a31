------------------------------ MODULE ClientConfig ------------------------------
(***************************************************************************)
(* The desktop client's saved servers (src/internal/client/config.go): the *)
(* list operations, LoadConfig and Save, called by the control panel's     *)
(* handlers (controller.go, gui.go), by a subscription (Subscribe,         *)
(* subscribe.go) and by the command line (src/cmd/arnosvpn-client).        *)
(*                                                                         *)
(* The panel keeps its configuration in memory under c.mu and writes it    *)
(* out after each change; a command loads, changes and writes.  Save       *)
(* truncates the file and then writes it, so that programs may meet in     *)
(* between, be killed there, or fail.                                      *)
(***************************************************************************)
EXTENDS Provision, Sequences

CONSTANTS Fold,         \* maps a spelling of a name to what EqualFold compares
          URIs,         \* URIs that users enter
          Labels,       \* names that users give to the servers they add
          Feeds,        \* what a subscription URL may lead to
          Modes,        \* values of the setting Mode a request may carry
          NotRunning,   \* in place of the panel's configuration
          NoFile, Empty, Garbled,    \* a file that is no configuration
          MaxServers,   \* bound on the length of the list
          MaxCommands   \* bound on the number of commands

Names == DOMAIN Fold

\* The URIs that users enter and the lines of feeds.
Offered == URIs \cup UNION {{f.lines[i] : i \in DOMAIN f.lines} : f \in Feeds}

\* The types Server and Config.
Server == [name : Names, uri : Offered]
Configs == [active : Names, servers : Seq(Server), mode : Modes \cup {"proxy"}]

ASSUME ClientConfigAssumption ==
  /\ "" \in Names /\ \A n \in Names : Fold[n] = Fold[""] => n = ""
  /\ \A u \in Offered : Get(u.name) \in Names /\ Get(u.host) \in Names
  /\ \A f \in Feeds : f.lines \in Seq(Offered)
  /\ Labels \subseteq Names
  /\ \A x \in {NotRunning, NoFile, Empty, Garbled} : x \notin Configs
  /\ NoFile \notin {Empty, Garbled}
  /\ MaxServers \in Nat /\ MaxCommands \in Nat

VARIABLES
  disk,         \* the file: NoFile, Empty, Garbled or a configuration
  mem,          \* c.cfg of the running panel
  cli,          \* the configuration a command is about to save
  commands,     \* commands so far
  saving,       \* how far the Save of each program is
  feed,         \* URIs a Subscribe has still to add
  added,        \* its count
  last,         \* history: the configuration saved last, by any program
  writer,       \* history: who has changed the file since it was last truncated or read
  failed        \* history: the panel's last Save returned an error

vars == <<disk, mem, cli, commands, saving, feed, added, last, writer, failed>>

EqualFold(a, b) == Fold[a] = Fold[b]
NoConfig == [active |-> "", servers |-> <<>>, mode |-> "proxy"]
IsConfig(x) == x \notin {NoFile, Empty, Garbled}
-----------------------------------------------------------------------------
(* Operations on a configuration *)

DefaultName(name, p) == OrElse(name, OrElse(p.name, p.host))

Positions(c, n) == {i \in DOMAIN c.servers : EqualFold(c.servers[i].name, n)}

\* Faulty variant of Add: names are compared letter by letter.
ExactAdd(c, name, u) ==
  LET n == DefaultName(name, ParseURI(u).profile) IN
  IF \E i \in DOMAIN c.servers : c.servers[i].name = n
  THEN [c EXCEPT !.servers = [i \in DOMAIN c.servers |->
         IF c.servers[i].name = n THEN [c.servers[i] EXCEPT !.uri = u] ELSE c.servers[i]]]
  ELSE [c EXCEPT !.servers = Append(@, [name |-> n, uri |-> u]),
                 !.active = IF @ = "" THEN n ELSE @]

\* The URI of a server of that name is replaced, or the server is appended,
\* and becomes active if none is.
Add(c, name, u) ==
  LET n == DefaultName(name, ParseURI(u).profile) IN
  IF Positions(c, n) # {}
  THEN [c EXCEPT !.servers = [i \in DOMAIN c.servers |->
         IF i \in Positions(c, n) THEN [c.servers[i] EXCEPT !.uri = u] ELSE c.servers[i]]]
  ELSE [c EXCEPT !.servers = Append(@, [name |-> n, uri |-> u]),
                 !.active = IF @ = "" THEN n ELSE @]

\* s without the elements at positions P, collected one by one.
Without(s, P) ==
  LET out[i \in 0 .. Len(s)] ==
        IF i = 0 THEN <<>>
        ELSE IF i \in P THEN out[i - 1] ELSE Append(out[i - 1], s[i])
  IN  out[Len(s)]

\* The first server that is left takes the place of an active one.
Remove(c, name) ==
  LET rest == Without(c.servers, Positions(c, name)) IN
  [c EXCEPT !.servers = rest,
            !.active = IF ~EqualFold(@, name) THEN @
                       ELSE IF rest # <<>> THEN rest[1].name ELSE ""]

\* Profile finds a server; an empty name stands for the active one.
Profile(c, name) ==
  LET n == IF name = "" THEN c.active ELSE name
  IN  n # "" /\ Positions(c, n) # {}
-----------------------------------------------------------------------------
(* Load and Save *)

\* Faulty variant of Load: a file that cannot be parsed counts as none.
LenientLoad == {IF IsConfig(disk) THEN disk ELSE NoConfig}

\* What LoadConfig may return: an empty configuration for an absent file, and
\* nothing but an error for one that cannot be parsed.
Load == IF disk = NoFile THEN {NoConfig} ELSE {disk} \ {Empty, Garbled}

Content(p) == IF p = "panel" THEN mem ELSE cli

\* Save ends: the panel releases c.mu, the command exits.
Saved(p) ==
  /\ saving' = [saving EXCEPT ![p] = "no"]
  /\ cli' = IF p = "command" THEN NoConfig ELSE cli

Truncate(p) ==
  /\ saving[p] = "truncate"
  /\ disk' = Empty /\ writer' = p
  /\ saving' = [saving EXCEPT ![p] = "write"]
  /\ UNCHANGED <<mem, cli, feed, added, last, failed, commands>>

\* Into a file that another program has filled since the truncation, the
\* write may leave a rest of the other content behind.
Write(p) ==
  /\ saving[p] = "write"
  /\ disk' \in IF disk = Empty THEN {Content(p)} ELSE {Content(p), Garbled}
  /\ last' = Content(p) /\ writer' = IF writer = p THEN p ELSE "both"
  /\ failed' = (failed /\ p # "panel")
  /\ Saved(p)
  /\ UNCHANGED <<mem, feed, added, commands>>

\* The directory, the file or the disk refuses, perhaps after a part is written.
SaveFails(p) ==
  /\ saving[p] # "no"
  /\ disk' \in IF saving[p] = "write" THEN {disk, Garbled} ELSE {disk}
  /\ failed' = (failed \/ p = "panel")
  /\ writer' = IF disk' = disk \/ writer = p THEN writer ELSE "both"
  /\ Saved(p)
  /\ UNCHANGED <<mem, feed, added, last, commands>>
-----------------------------------------------------------------------------
(* The control panel; Unlocked is where a handler can take c.mu *)

Unlocked == mem # NotRunning /\ saving["panel"] = "no"

\* NewController; a file that cannot be parsed ends the program.
PanelStarts ==
  /\ mem = NotRunning
  /\ mem' \in Load
  /\ writer' = "panel"
  /\ UNCHANGED <<disk, cli, saving, feed, added, last, failed, commands>>

\* The panel is closed or killed, whatever it is doing.
PanelEnds ==
  /\ mem # NotRunning
  /\ mem' = NotRunning /\ feed' = <<>> /\ added' = 0 /\ failed' = FALSE
  /\ Saved("panel")
  /\ UNCHANGED <<disk, last, writer, commands>>

\* A handler changes the configuration and goes on to save it, with the lock.
Change(c) ==
  /\ mem' = c
  /\ saving' = [saving EXCEPT !["panel"] = "truncate"]
  /\ UNCHANGED <<disk, cli, feed, added, last, writer, failed, commands>>

Fits(c) == Len(c.servers) <= MaxServers

AddServer(u) == Unlocked /\ ParseURI(u).ok /\ Fits(Add(mem, "", u)) /\ Change(Add(mem, "", u))

RemoveServer(n) == Unlocked /\ Change(Remove(mem, n))

SetActive(n) == Unlocked /\ Profile(mem, n) /\ Change([mem EXCEPT !.active = n])

\* Settings that are not set get their defaults; the mode stands for all.
SetSettings(m) ==
  Unlocked /\ Change([mem EXCEPT !.mode = IF m = "" THEN "proxy" ELSE m])

\* newHTTPGet, fetchBody, safeTransport, isPublicIP: each hop of the request is
\* http or https and resolves to public addresses only.  No proxy is set in the
\* environment (with one, the dialer is given the proxy's address); a body that is
\* cut at 4 MiB is a feed with fewer lines.
Fetchable(f) ==
  \A i \in DOMAIN f.hops :
    f.hops[i].scheme \in {"http", "https"} /\ f.hops[i].ips \subseteq {"public"}

\* The lines that begin with arnos://, once maybeBase64 has decoded the body.
Entries(f) ==
  IF f.coding \in {"plain", "base64"}
  THEN Without(f.lines, {i \in DOMAIN f.lines : f.lines[i].scheme # "arnos"})
  ELSE <<>>

\* A Subscribe has its feed; one at a time.
Subscribe(f) ==
  /\ mem # NotRunning /\ feed = <<>> /\ added = 0
  /\ Fetchable(f) /\ Entries(f) # <<>>
  /\ feed' = Entries(f)
  /\ UNCHANGED <<disk, mem, cli, saving, added, last, writer, failed, commands>>

\* One critical section for each entry; an entry that is invalid is skipped.
SubscribeAdds ==
  /\ Unlocked /\ feed # <<>>
  /\ LET u == Head(feed) IN
       IF ParseURI(u).ok
       THEN mem' = Add(mem, "", u) /\ added' = added + 1 /\ Fits(mem')
       ELSE UNCHANGED <<mem, added>>
  /\ feed' = Tail(feed)
  /\ UNCHANGED <<disk, cli, saving, last, writer, failed, commands>>

\* Faulty variant of SubscribeSaves: a subscription is not saved.
LazySubscribeSaves ==
  /\ Unlocked /\ feed = <<>> /\ added > 0
  /\ added' = 0
  /\ UNCHANGED <<disk, mem, cli, saving, feed, last, writer, failed, commands>>

\* The last critical section.
SubscribeSaves ==
  /\ Unlocked /\ feed = <<>> /\ added > 0
  /\ added' = 0
  /\ saving' = [saving EXCEPT !["panel"] = "truncate"]
  /\ UNCHANGED <<disk, mem, cli, feed, last, writer, failed, commands>>

Panel ==
  \/ PanelStarts \/ PanelEnds
  \/ \E u \in URIs : AddServer(u)
  \/ \E n \in Names : RemoveServer(n) \/ SetActive(n)
  \/ \E m \in Modes : SetSettings(m)
  \/ \E f \in Feeds : Subscribe(f)
  \/ SubscribeAdds \/ SubscribeSaves
-----------------------------------------------------------------------------
(* Commands, one at a time *)

Command(c) ==
  /\ saving["command"] = "no" /\ commands < MaxCommands
  /\ cli' = c /\ commands' = commands + 1
  /\ saving' = [saving EXCEPT !["command"] = "truncate"]
  /\ UNCHANGED <<disk, mem, feed, added, last, writer, failed>>

CmdAdd(n, u) == \E c \in Load : ParseURI(u).ok /\ Fits(Add(c, n, u)) /\ Command(Add(c, n, u))
CmdRemove(n) == \E c \in Load : Command(Remove(c, n))
CmdUse(n)    == \E c \in Load : Profile(c, n) /\ Command([c EXCEPT !.active = n])

CommandKilled ==
  /\ saving["command"] # "no"
  /\ Saved("command")
  /\ UNCHANGED <<disk, mem, feed, added, last, writer, failed, commands>>

Commands ==
  \/ \E n \in Names : CmdRemove(n) \/ CmdUse(n)
  \/ \E n \in Labels, u \in URIs : CmdAdd(n, u)
  \/ CommandKilled

\* A user whose file is beyond repair deletes it.
UserDeletes ==
  /\ disk \in {Empty, Garbled} /\ mem = NotRunning /\ saving["command"] = "no"
  /\ disk' = NoFile /\ last' = NoConfig
  /\ UNCHANGED <<mem, cli, saving, feed, added, writer, failed, commands>>
-----------------------------------------------------------------------------
Init ==
  /\ disk = NoFile /\ mem = NotRunning /\ cli = NoConfig /\ commands = 0
  /\ saving = [p \in {"panel", "command"} |-> "no"]
  /\ feed = <<>> /\ added = 0
  /\ last = NoConfig /\ writer = "panel" /\ failed = FALSE

SaveSteps == \E p \in {"panel", "command"} : Truncate(p) \/ Write(p) \/ SaveFails(p)

Next == Panel \/ Commands \/ SaveSteps \/ UserDeletes
Spec == Init /\ [][Next]_vars
-----------------------------------------------------------------------------
TypeOK ==
  /\ disk \in Configs \cup {NoFile, Empty, Garbled}
  /\ mem \in Configs \cup {NotRunning}
  /\ cli \in Configs /\ last \in Configs
  /\ saving \in [{"panel", "command"} -> {"no", "truncate", "write"}]
  /\ feed \in Seq(Offered) /\ added \in Nat /\ commands \in Nat
  /\ writer \in {"panel", "command", "both"} /\ failed \in BOOLEAN

\* A configuration that Connect and the panel can work with: names differ under
\* EqualFold, an active server is one of the list, each has a name and a URI that
\* parses, the mode is set.
Usable(c) ==
  /\ \A i \in DOMAIN c.servers : c.servers[i].name # "" /\ ParseURI(c.servers[i].uri).ok
  /\ \A i, j \in DOMAIN c.servers :
       EqualFold(c.servers[i].name, c.servers[j].name) => i = j
  /\ c.active # "" => Positions(c, c.active) # {}
  /\ c.mode # ""

\* Whatever programs do to the list, through any number of saves, loads and
\* half-done subscriptions, each configuration in memory or on disk is usable.
AlwaysUsable ==
  /\ mem # NotRunning => Usable(mem)
  /\ Usable(cli)
  /\ IsConfig(disk) => Usable(disk)

\* Nothing is lost without a word: a program that starts has the configuration
\* saved last.  A save that was interrupted leaves a file that LoadConfig
\* refuses, never one that it takes for a shorter list.
StartsFromLastSave == [][mem = NotRunning /\ mem' # NotRunning => mem' = last]_vars

\* Between requests the file holds what the panel shows, subscriptions
\* included, unless its last save returned an error or another program has
\* written the file.
MemoryIsSaved ==
  Unlocked /\ feed = <<>> /\ added = 0 /\ ~failed /\ writer = "panel"
    => Load = {mem}

\* What a step preserves besides AlwaysUsable: nothing is under way without a
\* panel; what the panel alone has truncated is empty until it writes; the file
\* holds the panel's configuration as MemoryIsSaved says, also while lines of a
\* feed are left but none is added; and a file that can be loaded is the last
\* one saved.
SaveInv ==
  /\ mem = NotRunning => saving["panel"] = "no" /\ feed = <<>> /\ added = 0 /\ ~failed
  /\ saving["panel"] = "write" /\ writer = "panel" => disk = Empty
  /\ Unlocked /\ added = 0 /\ ~failed /\ writer = "panel" => Load = {mem}
  /\ \A c \in Load : c = last

\* "SetActive switches the active server": after it the panel, which compares
\* letter by letter, marks a server of the list as the active one.
ActiveIsShown ==
  mem # NotRunning /\ mem.servers # <<>> =>
    \E i \in DOMAIN mem.servers : mem.servers[i].name = mem.active
=============================================================================

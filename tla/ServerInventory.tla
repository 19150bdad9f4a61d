-------------------------- MODULE ServerInventory --------------------------
(***************************************************************************)
(* siem/rbac/collect_server_inventory.py: the operator's read-only         *)
(* inventory of users, roles, policies and rules. A fixed script of        *)
(* requests, each over its own pinned TLS connection; the collections are  *)
(* read page by page, twice, while others edit them through the same API.  *)
(*                                                                         *)
(* A request is asked (connection, pin, headers) and answered later, from  *)
(* what the server holds then. Who listens on the port may change between  *)
(* any two connections. The deadline may pass at any moment: every step    *)
(* that looks at it may therefore fail, and after it they all do.          *)
(***************************************************************************)
EXTENDS Naturals, Sequences, FiniteSets

CONSTANTS
  Kinds,         \* COLLECTIONS, a sequence; "roles" is one of them
  Id,            \* the identifiers an item may get, reused ones included
  PageSize,      \* PAGE_SIZE
  MaxItems,      \* MAX_ITEMS
  MaxRequests,   \* the request limit
  MaxChanges,    \* bound: edits of the server during one collection
  Initially      \* the catalogs there may be at the login: items and links

Kind == {Kinds[i] : i \in DOMAIN Kinds}
Pages == (MaxItems + PageSize - 1) \div PageSize

(* What is read once and the steps of the login; no collection has such a  *)
(* name.                                                                   *)
Singles == {"/", "hostname", "credentials", "POST", "version", "me", "policies_me", "config"}

(* Nine requests read single documents; each pass reads every collection.  *)
(* A server holds finitely many items.                                     *)
ASSUME InventoryAssumption ==
  /\ Kinds \in Seq(STRING) /\ "roles" \in Kind /\ Kind \cap Singles = {}
  /\ Id \subseteq Nat \ {0}
  /\ \A c \in Initially : /\ c.items \in [Kind -> SUBSET Id] /\ c.links \subseteq Kind \X Id \X Id
                          /\ \A k \in Kind : IsFiniteSet(c.items[k])
  /\ PageSize \in Nat \ {0} /\ MaxItems \in Nat \ {0} /\ MaxChanges \in Nat
  /\ MaxRequests \in Nat /\ MaxRequests >= 9 + 2 * Len(Kinds) * Pages

VARIABLES
  world, worlds,  \* what the server holds; history: all it held since the login
  stack,          \* whether the TLS library checks host names
  stage,          \* position in the script
  asked,          \* a request is under way
  found, total,   \* the collection being read; {} or {expected}
  got,            \* answers by position
  requests,       \* counted
  token,          \* a session token is held
  posts, told,    \* history: to whom the password, and any secret, went
  result

server == <<world, worlds, stack>>
client == <<stage, asked, found, total, got, requests, token, posts, told, result>>
vars == <<world, worlds, stack, stage, asked, found, total, got,
          requests, token, posts, told, result>>

Context == {"config", "policies_me", "me"}

(* main and collect, as one script. *)
Script ==
  <<"/", "hostname", "credentials", "POST", "version", "me", "policies_me", "config">>
    \o Kinds \o Kinds \o <<"config", "policies_me", "me">>

Now == Script[stage]
FirstOf(answers) == [k \in Kind |-> answers[CHOOSE i \in 9 .. 8 + Len(Kinds) : Script[i] = k]]
Running == result = "none"

-----------------------------------------------------------------------------
(* The server. A link joins an item to a role, and is shown by both.       *)

Row(w, k, i) ==
  [id |-> i,
   links |-> IF k = "roles" THEN {<<l[1], l[2]>> : l \in {m \in w.links : m[3] = i}}
             ELSE {<<"roles", l[3]>> : l \in {m \in w.links : m[1] = k /\ m[2] = i}}]

Catalog(w, k) == {Row(w, k, i) : i \in w.items[k]}

(* ?limit=PAGE_SIZE&offset=n&sort=id, by a server that gives as many items *)
(* as it is asked for.                                                     *)
PageAt(w, k, n) ==
  {x \in Catalog(w, k) : Cardinality({i \in w.items[k] : i < x.id}) \in n .. n + PageSize - 1}

(* Before a request and while it is under way are the same to the server. *)
Edit(w) ==
  /\ Running /\ posts # <<>> /\ asked /\ Len(worlds) <= MaxChanges
  /\ world' = w /\ worlds' = Append(worlds, w)
  /\ UNCHANGED <<stack, client>>

Create(k, i) == i \notin world.items[k] /\ Edit([world EXCEPT !.items[k] = @ \cup {i}])

Delete(k, i) ==
  /\ i \in world.items[k]
  /\ Edit([world EXCEPT !.items[k] = @ \ {i},
             !.links = {l \in @ : ~(l[1] = k /\ l[2] = i) /\ ~(k = "roles" /\ l[3] = i)}])

Relink(k, i, r) ==
  /\ k # "roles" /\ i \in world.items[k] /\ r \in world.items["roles"]
  /\ LET l == <<k, i, r>>
     IN  Edit([world EXCEPT !.links = IF l \in @ THEN @ \ {l} ELSE @ \cup {l}])

Reconfigure(c, v) == world.context[c] # v /\ Edit([world EXCEPT !.context[c] = v])

Environment ==
  \/ \E k \in Kind, i \in Id : Create(k, i) \/ Delete(k, i)
  \/ \E k \in Kind, i, r \in Id : Relink(k, i, r)
  \/ \E c \in Context, v \in {"a", "b", "bad"} : Reconfigure(c, v)

-----------------------------------------------------------------------------
(* The client. *)

StopKeepsToken(why) == result' = why /\ asked' = FALSE /\ UNCHANGED token
Stop(why) == result' = why /\ token' = FALSE /\ asked' = FALSE

Go(answer) ==
  /\ stage' = stage + 1 /\ asked' = FALSE
  /\ got' = Append(got, answer)
  /\ result' = IF stage = Len(Script) THEN "ok" ELSE "none"
  /\ token' = (stage < Len(Script) /\ (token \/ Now = "POST"))

(* connect: nothing is said to a peer whose certificate is not the pinned  *)
(* one, on this connection.                                                *)
ConnectPinnedOnce(peer) == peer = "server" \/ requests > 0
Connect(peer) == peer = "server"

(* Client.request, up to the headers: counted first, then connected, or    *)
(* not in time.                                                            *)
Ask(peer) ==
  /\ Running /\ ~asked
  /\ Now \notin {"hostname", "credentials"} /\ (Now = "POST" => posts = <<>>)
  /\ requests' = requests + 1
  /\ \/ requests' > MaxRequests /\ Stop("REQUEST_LIMIT") /\ UNCHANGED <<posts, told>>
     \/ requests' <= MaxRequests /\ Stop("CONNECT") /\ UNCHANGED <<posts, told>>
     \/ /\ requests' <= MaxRequests /\ Connect(peer)
        /\ asked' = TRUE
        /\ posts' = IF Now = "POST" THEN Append(posts, peer) ELSE posts
        /\ told' = IF Now = "POST" \/ token THEN told \cup {peer} ELSE told
        /\ UNCHANGED <<token, result>>
  /\ UNCHANGED <<server, stage, found, total, got>>

(* wrong_hostname_probe: the handshake must fail, and for that reason. *)
ProbeHostname(peer) ==
  /\ Running /\ Now = "hostname"
  /\ \/ Connect(peer) /\ stack = "checks" /\ Go("refused")
     \/ Stop("NEGATIVE_TLS") /\ UNCHANGED <<stage, got>>
  /\ UNCHANGED <<server, found, total, requests, posts, told>>

(* The operator types, which does not count against the deadline, or ends  *)
(* the input instead.                                                      *)
Credentials ==
  /\ Running /\ Now = "credentials"
  /\ Go("typed")
  /\ UNCHANGED <<server, found, total, requests, posts, told>>

Decline ==
  /\ Running /\ Now = "credentials"
  /\ Stop("REQUEST")
  /\ UNCHANGED <<server, stage, found, total, got, requests, posts, told>>

(* The two passes must be equal, and so must the context around them. The  *)
(* code compares once the second pass is over; here each part is compared  *)
(* as it arrives, which only ends a failing run earlier.                   *)
FirstPass == 8 + Len(Kinds)
EarlierCounts(v) ==
  /\ Now \in Kind => Cardinality(v) = Cardinality(got[stage - Len(Kinds)])
  /\ Now \in Context => v = got[CHOOSE i \in 6 .. 8 : Script[i] = Now]
Earlier(v) ==
  /\ Now \in Kind => v = got[stage - Len(Kinds)]
  /\ Now \in Context => v = got[CHOOSE i \in 6 .. 8 : Script[i] = Now]

(* summarize: every link is shown from both of its ends. *)
Related(catalog) ==
  \A k \in Kind : \A x \in catalog[k] : \A l \in x.links :
    \E y \in catalog[l[1]] : y.id = l[2] /\ <<k, x.id>> \in y.links

Summarized(v) ==
  /\ Related(FirstOf(Append(got, v)))
  /\ \A i \in 6 .. 8 : got[i] # "bad"

Finish(v) ==
  \/ /\ stage > FirstPass => Earlier(v)
     /\ stage = FirstPass => Summarized(v)
     /\ Go(v)
  \/ /\ ~((stage > FirstPass => Earlier(v)) /\ (stage = FirstPass => Summarized(v)))
     /\ Stop("DRIFT") /\ UNCHANGED <<stage, got>>

Single(v) == Finish(v) /\ UNCHANGED <<found, total>>

(* fetch_collection: one page. Totals must agree, identifiers must grow,   *)
(* and the collection is complete when as many were found as were promised.*)
TurnUntilEmpty(k) ==
  LET batch == PageAt(world, k, Cardinality(found))
      count == Cardinality(world.items[k])
      all == found \cup batch
      good == count <= MaxItems /\ total \subseteq {count} /\ Cardinality(all) <= count
  IN  \/ ~good /\ Stop("PAGE") /\ UNCHANGED <<stage, found, total, got>>
      \/ good /\ batch = {} /\ Finish(all) /\ found' = {} /\ total' = {}
      \/ /\ good /\ batch # {}
         /\ asked' = FALSE /\ found' = all /\ total' = {count}
         /\ UNCHANGED <<stage, got, result, token>>

Turn(k) ==
  LET batch == PageAt(world, k, Cardinality(found))
      count == Cardinality(world.items[k])
      all == found \cup batch
      good == /\ count <= MaxItems
              /\ total \subseteq {count}
              /\ batch # {} \/ Cardinality(found) = count
              /\ \A x \in batch, y \in found : y.id < x.id
              /\ Cardinality(all) <= count
  IN  \/ ~good /\ Stop("PAGE") /\ UNCHANGED <<stage, found, total, got>>
      \/ good /\ Cardinality(all) = count /\ Finish(all) /\ found' = {} /\ total' = {}
      \/ /\ good /\ Cardinality(all) < count
         /\ asked' = FALSE /\ found' = all /\ total' = {count}
         /\ UNCHANGED <<stage, got, result, token>>

(* Client.request from the headers on. *)
Answer ==
  /\ Running /\ asked
  /\ \/ Now \in Kind /\ Turn(Now)
     \/ Now \in Context /\ Single(world.context[Now])
     \/ Now \in {"/", "POST", "version"} /\ Single("a")
  /\ UNCHANGED <<server, requests, posts, told>>

(* No answer, a late one, a wrong status, a truncated or oversized body. A *)
(* timeout on every socket call and the deadline in the loop of read_body  *)
(* give this step for what is awaited of a body; that the headers of a     *)
(* response come to an end is an assumption about the server.              *)
GiveUpNever == FALSE /\ UNCHANGED vars
GiveUp ==
  /\ Running /\ asked
  /\ Stop("REQUEST")
  /\ UNCHANGED <<server, stage, found, total, got, requests, posts, told>>

-----------------------------------------------------------------------------
Consistent(w) == \A l \in w.links : l[2] \in w.items[l[1]] /\ l[3] \in w.items["roles"]

Init ==
  /\ \E c \in Initially :
       world = [items |-> c.items, links |-> c.links, context |-> [d \in Context |-> "a"]]
  /\ Consistent(world)
  /\ worlds = <<world>>
  /\ stack \in {"checks", "sloppy"}
  /\ stage = 1 /\ asked = FALSE /\ found = {} /\ total = {} /\ got = <<>>
  /\ requests = 0 /\ token = FALSE /\ posts = <<>> /\ told = {} /\ result = "none"

Done == ~Running /\ UNCHANGED vars

Talk == \E peer \in {"server", "other"} : Ask(peer) \/ ProbeHostname(peer)

Next == Talk \/ Credentials \/ Decline \/ Answer \/ GiveUp \/ Environment \/ Done

(* The client goes on and its sockets time out. Neither the server nor the *)
(* operator has to do anything, and nobody stops editing.                  *)
Spec == Init /\ [][Next]_vars /\ WF_vars(Talk \/ GiveUp)

-----------------------------------------------------------------------------
TypeOK ==
  /\ Consistent(world) /\ world = worlds[Len(worlds)]
  /\ stage \in 1 .. Len(Script) + 1 /\ Len(got) = stage - 1
  /\ asked \in BOOLEAN /\ token \in BOOLEAN
  /\ told \subseteq {"server", "other"} /\ stack \in {"checks", "sloppy"}
  /\ Cardinality(total) <= 1 /\ (found # {} => total # {})
  /\ requests \in 0 .. MaxRequests + 1
  /\ token => Running /\ Len(posts) = 1
  /\ result \in {"none", "ok", "CONNECT", "NEGATIVE_TLS", "REQUEST_LIMIT", "DRIFT", "PAGE", "REQUEST"}

WentBack(Part(_)) ==
  \E i, j, k \in DOMAIN worlds :
    i < j /\ j < k /\ Part(worlds[i]) = Part(worlds[k]) /\ Part(worlds[j]) # Part(worlds[i])

Reversed ==
  \/ \E k \in Kind, i \in Id : WentBack(LAMBDA w : {x \in Catalog(w, k) : x.id = i})
  \/ \E c \in Context : WentBack(LAMBDA w : w.context[c])

(* An inventory that is reported is the server as it was at one instant,   *)
(* all collections complete and the context with them, unless something    *)
(* was changed and changed back meanwhile: however pages shifted while     *)
(* they were turned, and though no total ever showed it.                   *)
InventoryIsSnapshot ==
  result = "ok" /\ ~Reversed =>
    \E i \in DOMAIN worlds :
      /\ \A k \in Kind : FirstOf(got)[k] = Catalog(worlds[i], k)
      /\ \A j \in 6 .. 8 : got[j] = worlds[i].context[Script[j]]

(* The password leaves once at most; it and the token only for the pinned  *)
(* server, and from a client that was seen to check host names: also if    *)
(* another process took the port while the operator was typing.            *)
SecretsOnlyToPinned ==
  told # {} => told = {"server"} /\ posts = <<"server">> /\ stack = "checks"

(* The request limit is never what ends a collection: a catalog within     *)
(* MAX_ITEMS, turned page by page, fits, also while it is being edited.    *)
LimitIsEnough == result # "REQUEST_LIMIT"

(* A collection ends, by result or by error, or waits for the operator. *)
Ends ==
  /\ <>(~Running \/ Now = "credentials")
  /\ posts # <<>> ~> ~Running

=============================================================================

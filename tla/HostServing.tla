------------------------------ MODULE HostServing ------------------------------
(***************************************************************************)
(* The serving plane: the resolver of pages and sitemaps, and the resolver *)
(* of media beside it, answer requests from the object store alone.  A     *)
(* request reads the routing pointer, its manifest, the pointer of the     *)
(* site, the release it names and the object asked for, one call after the *)
(* other; other requests and the writers of the pointers run in between.   *)
(* What was read is remembered: the manifest and the release under the     *)
(* ETag of their pointer, a page under its release.                        *)
(*                                                                         *)
(* The writers are those of ReleasePublication and RoutingSync; here each  *)
(* moves its pointer whenever it likes.  Releases and manifests are stored *)
(* under keys of their own and never change, but they can be lost or       *)
(* damaged.                                                                *)
(***************************************************************************)
EXTENDS Integers, FiniteSets

CONSTANTS Sites, Hosts,
          Paths,       \* paths of pages and names of files
          Built,       \* of each release: site, canonical domain, what there is on each path
          Routing,     \* of each routing manifest: the site of a host, the canonical host of a site
          Requests,
          Plots        \* bounds of a behaviour: records of questions (the kind, host and path each
                       \* request asks for), routings and releases (writes of a pointer), faults
                       \* (objects damaged, calls that fail), forgets (whether what is remembered
                       \* may be gone before its pointer moves)

NoSite == "no site"
Nothing == "nothing"
Sitemap == "sitemap.xml"
NotFoundPage == "the not-found page"
Resolvers == {"pages", "media"}
KindsOfPath == {"page", "gone", "media", "none"}
Kinds == {"page", "sitemap", "media"}
Releases == DOMAIN Built
Manifests == DOMAIN Routing

ASSUME HostServingAssumption ==
  /\ NoSite \notin Sites /\ Nothing \notin Releases \cup Manifests
  /\ \A b \in Plots : /\ b.questions \in [Requests -> [kind: Kinds, host: Hosts, path: Paths]]
                      /\ {b.routings, b.releases, b.faults} \subseteq Nat
                      /\ b.forgets \in BOOLEAN
  /\ Built \in [Releases -> [site: Sites, domain: Hosts, paths: [Paths -> KindsOfPath]]]
  /\ Routing \in [Manifests -> [site: [Hosts -> Sites \cup {NoSite}], canonical: [Sites -> Hosts]]]

VARIABLES plot,       \* the bounds of this behaviour
          routing,    \* the routing pointer: an ETag and a manifest
          pointer,    \* the pointer of each site: an ETag and a release
          damaged,    \* objects of releases that are lost or not what the release lists
          manifests,  \* the manifest each resolver remembers
          states,     \* the release of each site each resolver remembers
          pages,      \* the pages and sitemaps remembered: their key and what they are
          req,        \* the requests
          seen,       \* what the pointers named while a request was open
          used        \* moves and faults so far

vars == <<plot, routing, pointer, damaged, manifests, states, pages, req, seen, used>>
store == <<plot, routing, pointer, damaged>>
caches == <<manifests, states, pages>>

\* The objects of a release: those of its manifest, and the manifest.
Listed(x) == {p \in Paths : Built[x].paths[p] \in {"page", "media"}} \cup {Sitemap, NotFoundPage, "routes.json"}
Object(x, p) == <<x, p>>
Objects == UNION {{Object(x, p) : p \in Listed(x) \cup {"manifest.json"}} : x \in Releases}

Entry(etag, value) == [etag |-> etag, value |-> value]
NoEntry == Entry(0, Nothing)
Steps == {"closed", "routing", "routing pointer", "manifest", "site", "site pointer", "release",
          "route", "object", "done"}
Answers == {"page", "gone", "no file", "unknown host", "unavailable", "thrown", Nothing}
NoRequest == [step |-> "closed", kind |-> "page", host |-> Nothing, path |-> Nothing, etag |-> 0,
              manifest |-> Nothing, site |-> NoSite, release |-> Nothing, object |-> Nothing,
              answer |-> Nothing, content |-> Nothing]
At(r, step) == req[r].step = step
Resolver(r) == IF req[r].kind = "media" THEN "media" ELSE "pages"

\* pageCacheKey.  (Used by no action: KeyOfSite, without the release.)
KeyOfSite(x, p) == <<Built[x].site, p>>
PageKey(x, p) == <<Built[x].site, x, p>>

TypeOK ==
  /\ plot \in Plots
  /\ routing.etag \in 0..plot.routings + plot.releases + 1 /\ routing.value \in Manifests \cup {Nothing}
  /\ \A s \in Sites : /\ pointer[s].etag \in 0..plot.routings + plot.releases + 1
                      /\ pointer[s].value \in Releases \cup {Nothing}
  /\ damaged \subseteq Objects
  /\ \A v \in Resolvers : /\ manifests[v].value \in Manifests \cup {Nothing}
                          /\ \A s \in Sites : states[v][s].value \in Releases \cup {Nothing}
  /\ \A e \in pages : e.content \in Objects
  /\ \A e, f \in pages : e.key = f.key => e = f
  /\ \A r \in Requests :
       /\ req[r].step \in Steps /\ req[r].kind \in Kinds /\ req[r].answer \in Answers
       /\ req[r].step = "object" => Object(req[r].release, req[r].object) \in Objects
       /\ (req[r].answer # Nothing) <=> At(r, "done")
  /\ \A k \in DOMAIN used : used[k] \in 0..plot[k]

\* Sites are routed, and released or not yet, or nothing was routed yet; the resolver
\* may have been serving them.
Init ==
  /\ plot \in Plots
  /\ \E m \in Manifests, warm \in BOOLEAN, none \in BOOLEAN, first \in [Sites -> Releases \cup {Nothing}] :
       /\ \A s \in Sites : first[s] # Nothing => /\ Built[first[s]].site = s /\ ~none
                                              /\ Built[first[s]].domain = Routing[m].canonical[s]
       /\ routing = IF none THEN NoEntry ELSE Entry(1, m)
       /\ pointer = [s \in Sites |-> IF first[s] = Nothing THEN NoEntry ELSE Entry(1, first[s])]
       /\ manifests = [v \in Resolvers |-> IF warm THEN routing ELSE NoEntry]
       /\ states = [v \in Resolvers |-> [s \in Sites |-> IF warm THEN pointer[s] ELSE NoEntry]]
  /\ pages = {} /\ damaged = {}
  /\ req = [r \in Requests |-> NoRequest]
  /\ seen = [r \in Requests |-> [manifests |-> {}, releases |-> {}, disturbed |-> FALSE]]
  /\ used = [routings |-> 0, releases |-> 0, faults |-> 0]

(***************************************************************************)
(* The store.                                                              *)
(***************************************************************************)
Open == {r \in Requests : req[r].step \notin {"closed", "done"}}

See(ms, xs) ==
  seen' = [r \in Requests |->
             IF r \notin Open THEN seen[r]
             ELSE [manifests |-> seen[r].manifests \cup ms, releases |-> seen[r].releases \cup xs,
                   disturbed |-> TRUE]]

Use(k) == used[k] < plot[k] /\ used' = [used EXCEPT ![k] = @ + 1]
NewEtag == used.routings + used.releases + 2
\* Nothing moves any more once all requests are answered: a bound.
Going == \E r \in Requests : ~At(r, "done")

\* The pointers are replaced whole; an ETag is used once.
MoveRouting(m) ==
  /\ Going /\ Use("routings")
  /\ routing' = Entry(NewEtag, m)
  /\ See({m}, {})
  /\ UNCHANGED <<plot, pointer, damaged, caches, req>>

MovePointer(x) ==
  /\ Going /\ Use("releases")
  /\ pointer' = [pointer EXCEPT ![Built[x].site] = Entry(NewEtag, x)]
  /\ See({}, {x})
  /\ UNCHANGED <<plot, routing, damaged, caches, req>>

Current == {pointer[s].value : s \in Sites} \ {Nothing}

\* Only releases that a pointer names are damaged: a bound.
Damage(object) ==
  /\ object \notin damaged /\ object[1] \in Current /\ Going /\ Use("faults")
  /\ damaged' = damaged \cup {object}
  /\ See({}, {})
  /\ UNCHANGED <<plot, routing, pointer, caches, req>>

(***************************************************************************)
(* A request.                                                              *)
(***************************************************************************)
Ask(r) ==
  LET q == plot.questions[r]
  IN /\ At(r, "closed")
     /\ req' = [req EXCEPT ![r].step = "routing", ![r].kind = q.kind, ![r].host = q.host,
                           ![r].path = q.path]
     /\ seen' = [seen EXCEPT ![r].manifests = {routing.value} \ {Nothing}, ![r].releases = Current]
     /\ UNCHANGED <<store, caches, used>>

\* The last step of a request; it drops what it read on the way.
Done(r, answer, content) ==
  req' = [req EXCEPT ![r].step = "done", ![r].answer = answer, ![r].content = content,
                     ![r].etag = 0, ![r].manifest = Nothing, ![r].object = Nothing]
Say(r, answer) == Done(r, answer, Nothing)
Give(r, content) == Done(r, "page", content)

\* A RuntimeFailure is answered with 503, but resolve returns the promise of the
\* not-found page without awaiting it: what fails in there is thrown at the caller.
Refuse(r) ==
  Say(r, IF At(r, "object") /\ req[r].object = NotFoundPage THEN "thrown" ELSE "unavailable")

\* TtlLruCache.get: what is remembered may be gone, by its age or for room.  A
\* manifest or release counts if its pointer still has the ETag it was read with.
Fresh(entry, etag) == entry.etag = etag
Misses(remembered) == remembered => plot.forgets

\* siteForHostname, once there is a manifest.
Found(r, m) ==
  LET s == Routing[m].site[req[r].host]
  IN \/ s = NoSite /\ Say(r, "unknown host")
     \/ /\ s # NoSite
        /\ req' = [req EXCEPT ![r].step = "site", ![r].manifest = m, ![r].site = s,
                              ![r].etag = 0]

\* loadRouting.
HeadRouting(r) ==
  LET v == Resolver(r)
  IN /\ At(r, "routing")
     /\ \/ routing.etag = 0 /\ Refuse(r)
        \/ /\ routing.etag # 0 /\ Fresh(manifests[v], routing.etag)
           /\ Found(r, manifests[v].value)
        \/ /\ routing.etag # 0 /\ Misses(Fresh(manifests[v], routing.etag))
           /\ req' = [req EXCEPT ![r].step = "routing pointer", ![r].etag = routing.etag]
     /\ UNCHANGED <<store, caches, seen, used>>

\* The pointer read must be the one whose ETag was seen.
AsHeaded(r, entry) == entry.etag = req[r].etag

ReadRouting(r) ==
  /\ At(r, "routing pointer")
  /\ \/ /\ AsHeaded(r, routing)
        /\ req' = [req EXCEPT ![r].step = "manifest", ![r].manifest = routing.value]
     \/ ~AsHeaded(r, routing) /\ Refuse(r)
  /\ UNCHANGED <<store, caches, seen, used>>

ReadManifest(r) ==
  /\ At(r, "manifest")
  /\ manifests' = [manifests EXCEPT ![Resolver(r)] = Entry(req[r].etag, req[r].manifest)]
  /\ Found(r, req[r].manifest)
  /\ UNCHANGED <<store, states, pages, seen, used>>

\* The release must be compiled for the canonical domain; media do not ask.
\* (Used by no action: HostAgrees, as if it were the host of the request.)
HostAgrees(r, x) == Resolver(r) = "media" \/ Built[x].domain = req[r].host
DomainAgrees(r, x) == Resolver(r) = "media" \/ Built[x].domain = Routing[req[r].manifest].canonical[req[r].site]

\* loadSite and loadSiteRelease.  A page resolver that finds another ETag, or no entry,
\* forgets the release and its pages.
HeadPointer(r) ==
  LET v == Resolver(r)
      s == req[r].site
      entry == states[v][s]
  IN /\ At(r, "site")
     /\ \/ /\ pointer[s].etag = 0 /\ Refuse(r)
           /\ UNCHANGED <<states, pages>>
        \/ /\ pointer[s].etag # 0
           /\ Fresh(entry, pointer[s].etag) /\ DomainAgrees(r, entry.value)
           /\ req' = [req EXCEPT ![r].step = "route", ![r].release = entry.value]
           /\ UNCHANGED <<states, pages>>
        \/ /\ pointer[s].etag # 0
           /\ Misses(Fresh(entry, pointer[s].etag) /\ DomainAgrees(r, entry.value))
           /\ req' = [req EXCEPT ![r].step = "site pointer", ![r].etag = pointer[s].etag]
           /\ \/ v = "media" /\ UNCHANGED <<states, pages>>
              \/ /\ v = "pages"
                 /\ states' = [states EXCEPT ![v][s] = NoEntry]
                 /\ pages' = {e \in pages : Built[e.content[1]].site # s}
     /\ UNCHANGED <<store, manifests, seen, used>>

ReadPointer(r) ==
  LET entry == pointer[req[r].site]
  IN /\ At(r, "site pointer")
     /\ \/ /\ AsHeaded(r, entry)
           /\ req' = [req EXCEPT ![r].step = "release", ![r].release = entry.value]
        \/ ~AsHeaded(r, entry) /\ Refuse(r)
     /\ UNCHANGED <<store, caches, seen, used>>

\* parseJsonObject of a manifest and assertArtifact: an object is used when it has the
\* size, type and hash its release gives.
Verified(x, p) == Object(x, p) \notin damaged

ReadRelease(r) ==
  LET x == req[r].release
      sound == /\ Verified(x, "manifest.json")
               /\ Resolver(r) = "pages" => Verified(x, "routes.json")
               /\ DomainAgrees(r, x)
  IN /\ At(r, "release")
     /\ \/ /\ sound
           /\ states' = [states EXCEPT ![Resolver(r)][req[r].site] = Entry(req[r].etag, x)]
           /\ req' = [req EXCEPT ![r].step = "route", ![r].etag = 0]
        \/ ~sound /\ Refuse(r) /\ UNCHANGED states
     /\ UNCHANGED <<store, manifests, pages, seen, used>>

\* The object a request is about, by the routes or, of media, the manifest.
\* (Used by no action: TakesAnyName, as if the manifest were not asked.)
TakesAnyName(r) == req[r].path
ObjectOf(r) ==
  LET x == req[r].release
      p == req[r].path
  IN IF req[r].kind = "sitemap" THEN Sitemap
     ELSE IF req[r].kind = "media" THEN IF Built[x].paths[p] = "media" THEN p ELSE Nothing
     ELSE IF Built[x].paths[p] = "page" THEN p
     ELSE IF Built[x].paths[p] = "gone" THEN Nothing
     ELSE NotFoundPage

Route(r) ==
  LET object == ObjectOf(r)
      key == PageKey(req[r].release, object)
      hits == {e \in pages : e.key = key}
  IN /\ At(r, "route")
     /\ \/ /\ object = Nothing
           /\ Say(r, IF req[r].kind = "media" THEN "no file" ELSE "gone")
        \/ /\ object # Nothing /\ Resolver(r) = "pages"
           /\ \E e \in hits : Give(r, e.content)
        \/ /\ object # Nothing
           /\ Resolver(r) = "pages" => Misses(hits # {})
           /\ req' = [req EXCEPT ![r].step = "object", ![r].object = object]
     /\ UNCHANGED <<store, caches, seen, used>>

\* loadPage, loadSitemap, resolveMedia.
ReadObject(r) ==
  LET x == req[r].release
      p == req[r].object
      key == PageKey(x, p)
  IN /\ At(r, "object")
     /\ \/ /\ Verified(x, p) /\ Give(r, Object(x, p))
           /\ pages' = IF Resolver(r) = "media" THEN pages
                       ELSE {e \in pages : e.key # key} \cup {[key |-> key, content |-> Object(x, p)]}
        \/ ~Verified(x, p) /\ Refuse(r) /\ UNCHANGED pages
     /\ UNCHANGED <<store, manifests, states, seen, used>>

Serve(r) ==
  \/ HeadRouting(r) \/ ReadRouting(r) \/ ReadManifest(r)
  \/ HeadPointer(r) \/ ReadPointer(r) \/ ReadRelease(r)
  \/ Route(r) \/ ReadObject(r)

\* A call to the store fails or takes too long.
CallFails(r) ==
  /\ r \in Open /\ ~At(r, "route") /\ Use("faults")
  /\ Refuse(r)
  /\ seen' = [seen EXCEPT ![r].disturbed = TRUE]
  /\ UNCHANGED <<store, caches>>

Next ==
  \/ \E m \in Manifests : MoveRouting(m)
  \/ \E x \in Releases : MovePointer(x)
  \/ \E object \in Objects : Damage(object)
  \/ \E r \in Requests : \/ Ask(r)
                         \/ Serve(r) \/ CallFails(r)

Spec == Init /\ [][Next]_vars

(***************************************************************************)
(* Properties.                                                             *)
(***************************************************************************)
\* What is answered was true while the request was open: its host was routed to the
\* site, or to none, and the pointer of the site named the release.  So nobody who
\* asks after a takedown or rollback finished is shown what it replaced.
AnswerWasCurrent ==
  \A r \in Requests :
    /\ req[r].answer = "unknown host" => \E m \in seen[r].manifests : Routing[m].site[req[r].host] = NoSite
    /\ req[r].answer \in {"page", "gone", "no file"} =>
         /\ req[r].release \in seen[r].releases
         /\ \E m \in seen[r].manifests : Routing[m].site[req[r].host] = Built[req[r].release].site

\* A page is of the release it is announced with and of the path asked for: no answer
\* mixes two releases, although pages are remembered across requests.
AnswerIsOneRelease ==
  \A r \in Requests : req[r].answer = "page" => req[r].content = Object(req[r].release, ObjectOf(r))

\* What the resolver answers is of one release, and of one that was current.
AnswersAreTrue == AnswerWasCurrent /\ AnswerIsOneRelease

\* A request is refused only when something moved, failed or is damaged, nothing was
\* routed or released, or the release was compiled for another domain than the site has now.
RefusedForAReason ==
  [][\A r \in Requests :
       req'[r].answer \in {"unavailable", "thrown"} /\ req[r].answer = Nothing =>
         LET x == pointer[req[r].site].value
         IN \/ seen'[r].disturbed
            \/ damaged # {}
            \/ routing = NoEntry
            \/ req[r].site # NoSite /\ (x = Nothing \/ Built[x].domain # Routing[routing.value].canonical[req[r].site])]_vars
================================================================================

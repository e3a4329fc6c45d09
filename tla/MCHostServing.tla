----------------------------- MODULE MCHostServing -----------------------------
(***************************************************************************)
(* Two requests against a site with two releases, of which the later one   *)
(* took a page down, and a release compiled for the host of another site.  *)
(***************************************************************************)
EXTENDS HostServing

Release(domain, page, file) ==
  [site |-> "a", domain |-> domain, paths |-> [p \in {"/page", "file"} |-> IF p = "/page" THEN page ELSE file]]
MCBuilt == [x \in {"r1", "r2", "r3"} |->
              IF x = "r1" THEN Release("one", "page", "media")
              ELSE IF x = "r2" THEN Release("one", "gone", "none")
              ELSE Release("two", "none", "media")]
\* The domain of the site changes; it is then reached by the old one as well.
MCRouting == [m \in {"m1", "m2"} |->
                [site |-> [h \in {"one", "two"} |-> IF m = "m1" /\ h = "two" THEN NoSite ELSE "a"],
                 canonical |-> [s \in {"a"} |-> IF m = "m1" THEN "one" ELSE "two"]]]
Question(kind, host, path) == [kind |-> kind, host |-> host, path |-> path]
Plot(one, two, routings, releases, faults, forgets) ==
  [questions |-> [r \in {1, 2} |-> IF r = 1 THEN one ELSE two],
   routings |-> routings, releases |-> releases, faults |-> faults, forgets |-> forgets]
Page == Question("page", "one", "/page")
Missing == Question("page", "one", "file")
File == Question("media", "one", "file")
MCPlots == {Plot(Page, Page, 0, 2, 0, FALSE), Plot(Page, Page, 0, 1, 0, TRUE),
            Plot(Page, Question("page", "two", "/page"), 1, 1, 0, FALSE),
            Plot(File, File, 0, 1, 0, TRUE),
            Plot(Question("sitemap", "one", "/page"), Page, 0, 0, 1, TRUE),
            Plot(Missing, Missing, 0, 1, 0, FALSE), Plot(Missing, File, 0, 1, 1, FALSE)}
================================================================================

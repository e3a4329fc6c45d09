---------------------------- MODULE MCIntakeInbox ----------------------------
(***************************************************************************)
(* One feed with one entry, whose link may be submitted as well, and a     *)
(* text.  A behaviour has one row beside the entry's, a fault and an       *)
(* editor's decision; or two such rows of any channel and neither.         *)
(***************************************************************************)
EXTENDS IntakeInbox

CONSTANTS link, body

MCEntries == {link}
MCTexts == {body}
Plot(channels, rows, decided, faulty) ==
  [channels |-> channels, rows |-> rows, decisions |-> decided, faults |-> faulty]
MCPlots == {Plot({"url"}, 1, 1, 1), Plot({"url", "rss", "webhook"}, 2, 0, 0)}
==============================================================================

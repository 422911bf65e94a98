------------------------------ MODULE MCScraper ------------------------------
(* Instances of Scraper for TLC. *)
EXTENDS Scraper

Setup(nf, nc, nd, nt, named, facilities, courts, manners) ==
    [nf |-> nf, nc |-> nc, nd |-> nd, nt |-> nt, named |-> named,
     facilities |-> facilities, courts |-> courts,
     facility |-> [i \in 1..nf |-> IF i \notin facilities THEN Any
                                  ELSE IF "contained" \in manners THEN nf ELSE i],
     court |-> [i \in 1..nc |-> IF i \in courts THEN i ELSE Any],
     prompt |-> "prompt" \in manners, glitches |-> "glitches" \in manners,
     right |-> "right" \in manners]

Both == {"facility", "court"}

\* A site that offers all names in time, with right codes and wrong ones; one that
\* offers a single court, fills its dropdowns late and fails at times; one that does
\* not offer the first facility; no courts configured; no facilities configured; one
\* that only fills its dropdowns late; courts configured without facilities; the name
\* of the first facility contained in that of the second.
SmallSetups == {
    Setup(1, 1, 2, 2, Both, {1}, {1}, {"prompt", "right"}),
    Setup(2, 1, 1, 2, Both, {1, 2}, {1}, {"prompt", "right"}),
    Setup(1, 2, 1, 2, Both, {1}, {1, 2}, {"prompt"}),
    Setup(2, 2, 1, 1, Both, {1, 2}, {1}, {"glitches"}),
    Setup(2, 1, 1, 2, Both, {2}, {1}, {"prompt"}),
    Setup(1, 2, 1, 2, {"facility"}, {1}, {1, 2}, {"prompt", "right"}),
    Setup(2, 1, 1, 2, {"court"}, {1, 2}, {1}, {"prompt", "right"}),
    Setup(1, 2, 1, 2, Both, {1}, {1, 2}, {"right"}),
    Setup(2, 2, 1, 1, {"court"}, {1, 2}, {1, 2}, {"prompt", "right"}),
    Setup(2, 1, 1, 2, Both, {1, 2}, {1}, {"prompt", "right", "contained"})}
=============================================================================

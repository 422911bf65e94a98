------------------------------ MODULE MCJobForm ------------------------------
(* Instances of JobForm for TLC: a facility without courts, and jobs to edit: one  *)
(* with a facility that is gone, one that was made without the form and has        *)
(* facilities of two sports and a court of neither, one whose sport is gone.       *)
EXTENDS JobForm

SiteFacilities == [s1 |-> {"f1", "f2"}, s2 |-> {"f3"}]
SiteCourts == [f1 |-> {"c1"}, f2 |-> {}, f3 |-> {"c3"}]

Edited == [sport |-> "s1", facilities |-> {"f1"}, courts |-> {"c1"}]
Outdated == [Edited EXCEPT !.facilities = {"f0", "f1"}]
Mixed == [sport |-> "s1", facilities |-> {"f2", "f3"}, courts |-> {"c1"}]
Renamed == [Edited EXCEPT !.sport = "s0"]

\* Users who wait for every answer, one whose answers come in order, and ones who click
\* while answers come in any order.
SmallSettings == {
    [edit |-> TRUE, saved |-> Outdated, patient |-> TRUE, inOrder |-> FALSE, failing |-> TRUE,
     maxRequests |-> 8],
    [edit |-> TRUE, saved |-> Mixed, patient |-> TRUE, inOrder |-> TRUE, failing |-> TRUE,
     maxRequests |-> 6],
    [edit |-> TRUE, saved |-> Renamed, patient |-> TRUE, inOrder |-> TRUE, failing |-> FALSE,
     maxRequests |-> 6],
    [edit |-> FALSE, saved |-> NewForm, patient |-> TRUE, inOrder |-> TRUE, failing |-> FALSE,
     maxRequests |-> 5],
    [edit |-> TRUE, saved |-> Edited, patient |-> FALSE, inOrder |-> TRUE, failing |-> FALSE,
     maxRequests |-> 5],
    [edit |-> TRUE, saved |-> Mixed, patient |-> FALSE, inOrder |-> FALSE, failing |-> FALSE,
     maxRequests |-> 4],
    [edit |-> TRUE, saved |-> Edited, patient |-> FALSE, inOrder |-> FALSE, failing |-> TRUE,
     maxRequests |-> 5]}
=============================================================================

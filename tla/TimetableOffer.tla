--------------------------- MODULE TimetableOffer ---------------------------
(***************************************************************************)
(* What a timetable generator promises, whichever way it searches: it      *)
(* offers timetables one after the other, each one admissible for the      *)
(* request and none of them twice, never more than the request allows, and *)
(* then it answers.  Nothing offered is taken back or changed.             *)
(***************************************************************************)
EXTENDS Naturals, FiniteSets

CONSTANTS
  Admissible(_, _),     \* Admissible(request, timetable)
  LimitOf(_)            \* how many timetables a request may get

VARIABLES request, offers, answered

vars == <<request, offers, answered>>

Init == offers = {} /\ answered = FALSE

(* The request becomes known when the generator has looked at it.          *)
Ask ==
  /\ ~answered /\ offers = {}
  /\ request' # request
  /\ UNCHANGED <<offers, answered>>

Offer ==
  /\ ~answered
  /\ \E t \in offers' :
       /\ t \notin offers
       /\ Admissible(request, t)
       /\ offers' = offers \cup {t}
  /\ Cardinality(offers') <= LimitOf(request)
  /\ UNCHANGED <<request, answered>>

Answer == ~answered /\ answered' = TRUE /\ UNCHANGED <<request, offers>>

Next == Ask \/ Offer \/ Answer

Spec == Init /\ [][Next]_vars /\ WF_vars(Answer)

=============================================================================

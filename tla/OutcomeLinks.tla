---------------------------- MODULE OutcomeLinks ----------------------------
(***************************************************************************)
(* Outcome links (orchestration/outcome_links.py): the record of what a    *)
(* change was to bring about, of the measurements before and after it, and *)
(* of the verdict.  A link is a row of one file; to change it, the file is *)
(* read and rewritten without a lock, and then the kernel event recorded.  *)
(***************************************************************************)
EXTENDS RecordLog

CONSTANTS
    Recorders,   \* threads that serve requests
    LinkIds,
    LinkedChanges, \* the changes that links are about
    Predictions,   \* bound: what links predict
    MaxLinkCalls

VARIABLES
    linkLog,    \* outcome_links.jsonl
    linkCall,   \* linkCall[c]: the call c is in
    linkCalls,  \* bound: calls made
    linkEvents, \* the kernel events of links
    linkRaced   \* history: a caller wrote or read while another was rewriting

linkVars == <<linkLog, linkCall, linkCalls, linkEvents, linkRaced>>

LinkVerdicts == {"improved", "regressed", "inconclusive"}
ClosedLink == {"verdict_recorded", "voided"}

\* A link may carry the verdict that is expected; review is what the verdict
\* that is recorded says of it.
Link == [id : LinkIds, change : LinkedChanges, predicted : LinkVerdicts \cup {None},
         status : {"open", "measuring"} \cup ClosedLink,
         baseline : Recorders \cup {None}, \* who recorded it
         posts : Nat, verdict : LinkVerdicts \cup {None},
         review : {"awaiting_verdict", "not_predicted", "prediction_met", "prediction_failed",
                   "prediction_inconclusive"}]

\* What is not there is none of the things that may be there.
ASSUME LinkAssumption == None \notin Recorders /\ None \notin LinkVerdicts

ASSUME PredictionAssumption == Predictions \subseteq LinkVerdicts \cup {None}

LinkVerbs == {"created", "baseline", "post", "verdict", "voided"}

LinkInit ==
    /\ linkLog = Absent
    /\ linkCall = [c \in Recorders |-> None]
    /\ linkCalls = 0
    /\ linkEvents = <<>>
    /\ linkRaced = FALSE

-----------------------------------------------------------------------------
(* The changes of a link.                                                  *)

TakesBaseline(link) == link.status \notin ClosedLink /\ link.baseline = None

\* Mutant: a link that is being measured takes a verdict.
TakesVerdict_Measuring(link) == link.status = "measuring"

TakesVerdict(link) == link.status = "measuring" /\ link.baseline # None /\ link.posts > 0

Takes(link, verb) ==
    CASE verb = "baseline" -> TakesBaseline(link)
      [] verb = "post" -> link.status \notin ClosedLink /\ link.baseline # None
      [] verb \in LinkVerdicts -> TakesVerdict(link)
      [] verb = "voided" -> link.status \notin ClosedLink

\* prediction_review_for_outcome_link
ReviewOf(link, verdict) ==
    CASE link.predicted = None -> "not_predicted"
      [] link.predicted = verdict -> "prediction_met"
      [] link.predicted \notin {None, verdict} ->
             IF verdict = "inconclusive" THEN "prediction_inconclusive" ELSE "prediction_failed"

LinkAfter(link, verb, c) ==
    CASE verb = "baseline" -> [link EXCEPT !.baseline = c, !.status = "measuring"]
      [] verb = "post" -> [link EXCEPT !.posts = @ + 1, !.status = "measuring"]
      [] verb \in LinkVerdicts -> [link EXCEPT !.status = "verdict_recorded", !.verdict = verb,
                                           !.review = ReviewOf(link, verb)]
      [] verb = "voided" -> [link EXCEPT !.status = "voided"]

EventOf(verb) == IF verb \in LinkVerdicts THEN "verdict" ELSE verb

-----------------------------------------------------------------------------
(* Calls.                                                                  *)

LinkAt(c, at) == linkCall[c] # None /\ linkCall[c].at = at
LinkGoes(c, at) == linkCall' = [linkCall EXCEPT ![c].at = at]
LinkEnds(c) == linkCall' = [linkCall EXCEPT ![c] = None]
LinkRewriting(c) == \E d \in Recorders \ {c} : LinkAt(d, "open") \/ LinkAt(d, "fill")

NewLink(i, change, predicted) ==
    [id |-> i, change |-> change, predicted |-> predicted, status |-> "open", baseline |-> None,
     posts |-> 0, verdict |-> None,
     review |-> IF predicted = None THEN "not_predicted" ELSE "awaiting_verdict"]

\* create_outcome_link: a row, and then the event.  An id that the caller
\* gives may be in the file already; it has a second row then.
CreateLink(c, i, change, predicted) ==
    /\ linkCalls < MaxLinkCalls
    /\ linkCall[c] = None
    /\ linkCalls' = linkCalls + 1
    /\ linkLog' = Appended(linkLog, NewLink(i, change, predicted))
    /\ linkCall' = [linkCall EXCEPT ![c] = [at |-> "emit", id |-> i, verb |-> "created", rows |-> <<>>]]
    /\ linkRaced' = (linkRaced \/ LinkRewriting(c))
    /\ UNCHANGED linkEvents

BeginLinkChange(c, i, verb) ==
    /\ linkCalls < MaxLinkCalls
    /\ linkCall[c] = None
    /\ linkCalls' = linkCalls + 1
    /\ linkCall' = [linkCall EXCEPT ![c] = [at |-> "read", id |-> i, verb |-> verb, rows |-> <<>>]]
    /\ UNCHANGED <<linkLog, linkEvents, linkRaced>>

\* _mutate: every row of the link is changed, each by itself; what is not
\* there raises, and so does a row that does not take the change.
ReadLinks(c) ==
    /\ LinkAt(c, "read")
    /\ LET call == linkCall[c]
           rows == RowsOf(linkLog)
       IN IF /\ Readable(linkLog)
             /\ Mentions(rows, call.id)
             /\ \A n \in DOMAIN rows : rows[n].id = call.id => Takes(rows[n], call.verb)
          THEN linkCall' = [linkCall EXCEPT
                   ![c].at = "open",
                   ![c].rows = [n \in DOMAIN rows |-> IF rows[n].id = call.id
                                                      THEN LinkAfter(rows[n], call.verb, c) ELSE rows[n]]]
          ELSE LinkEnds(c)
    /\ linkRaced' = (linkRaced \/ \E d \in Recorders \ {c} : LinkAt(d, "fill"))
    /\ UNCHANGED <<linkLog, linkCalls, linkEvents>>

OpenLinks(c) ==
    /\ LinkAt(c, "open")
    /\ linkLog' = <<>>
    /\ LinkGoes(c, "fill")
    /\ linkRaced' = (linkRaced \/ LinkRewriting(c))
    /\ UNCHANGED <<linkCalls, linkEvents>>

FillLinks(c) ==
    /\ LinkAt(c, "fill")
    /\ linkLog' \in FilledOver(linkLog, linkCall[c].rows)
    /\ LinkGoes(c, "emit")
    /\ linkRaced' = (linkRaced \/ LinkRewriting(c))
    /\ UNCHANGED <<linkCalls, linkEvents>>

\* _emit, after the row.
EmitLink(c) ==
    /\ LinkAt(c, "emit")
    /\ linkEvents' = Append(linkEvents, [id |-> linkCall[c].id, verb |-> EventOf(linkCall[c].verb)])
    /\ LinkEnds(c)
    /\ UNCHANGED <<linkLog, linkCalls, linkRaced>>

LinkCreateStep(c) ==
    \E i \in LinkIds, change \in LinkedChanges, predicted \in Predictions :
        CreateLink(c, i, change, predicted)
LinkChangeStep(c) ==
    \E i \in LinkIds, verb \in {"baseline", "post", "voided"} \cup LinkVerdicts : BeginLinkChange(c, i, verb)

LinkNext == \E c \in Recorders :
    LinkCreateStep(c) \/ LinkChangeStep(c) \/ ReadLinks(c) \/ OpenLinks(c) \/ FillLinks(c) \/ EmitLink(c)
LinkSpec == LinkInit /\ [][LinkNext]_linkVars

-----------------------------------------------------------------------------
(* Properties.                                                             *)

LinksIn(file) == ToSet(RowsOf(file))

\* Type invariant of the links, the calls and the events.
LinkTypeOK ==
    /\ linkLog # Torn => \A link \in LinksIn(linkLog) : link \in Link
    /\ \A c \in Recorders : linkCall[c] # None =>
          linkCall[c].at \in {"read", "open", "fill", "emit"} /\ linkCall[c].id \in LinkIds
    /\ linkCalls \in 0 .. MaxLinkCalls
    /\ \A n \in DOMAIN linkEvents : linkEvents[n].id \in LinkIds /\ linkEvents[n].verb \in LinkVerbs
    /\ linkRaced \in BOOLEAN

RestsOnMeasurements(link) ==
    /\ link.status = "verdict_recorded" => link.baseline # None /\ link.posts > 0
    /\ link.status = "verdict_recorded" => link.verdict # None /\ link.review # "awaiting_verdict"
    /\ link.posts > 0 => link.baseline # None

\* A verdict rests on a measurement before the change and one after it, and a
\* prediction is reviewed by it, even in a file that overlapping calls rewrite.
VerdictRestsOnMeasurements ==
    linkLog # Torn => \A link \in LinksIn(linkLog) : RestsOnMeasurements(link)

EventsOf(i, verb) == SelectSeq(linkEvents, LAMBDA event : event.id = i /\ event.verb = verb)

\* A link has one measurement before the change and one verdict, and callers
\* are told so once, as long as no two calls overlap.  outcome-links.md:
\* "A link has exactly one before value."
OneBaselineOneVerdict ==
    ~linkRaced =>
        \A i \in LinkIds :
            /\ Len(EventsOf(i, "baseline")) <= 1
            /\ Len(EventsOf(i, "verdict")) + Len(EventsOf(i, "voided")) <= 1

\* Stated, and violated: the same, with calls that overlap.
OneBaseline == \A i \in LinkIds : Len(EventsOf(i, "baseline")) <= 1
=============================================================================

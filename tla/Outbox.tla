------------------------------- MODULE Outbox -------------------------------
(* A server as the controller's reconcilers see it: whether an edit waits to
   be published, the latest document, whether the host runs it and whether its
   agent said so.  Publication models in detail how a document comes about;
   here a publication is one step and only the latest document and the one
   that runs are kept: nothing else is ever served or compared. *)

CONSTANT None \* no row, no document, no receipt

NewServer(nothing) ==
  [dirty |-> FALSE, maint |-> FALSE,          \* generation ahead; job open
   doc |-> nothing, published |-> FALSE,      \* the latest revision
   run |-> nothing, current |-> FALSE,        \* what the host runs; is it the latest
   failed |-> FALSE, seen |-> FALSE, err |-> FALSE] \* last apply; as reported

(* The generation triggers: generation=generation+1. *)
Bumped(sv) == [sv EXCEPT !.dirty = TRUE]

(* Builder.Publish: a document equal to the latest one is reused. *)
Publishable(sv) == sv.dirty /\ ~sv.maint
Published(sv, doc) ==
  IF sv.published /\ sv.doc = doc THEN [sv EXCEPT !.dirty = FALSE]
  ELSE [sv EXCEPT !.dirty = FALSE, !.published = TRUE, !.doc = doc,
                  !.current = FALSE, !.seen = FALSE]

(* The exact receipt: the agent reported the latest revision without error
   and nothing newer waits to be published (routeServerApplied). *)
ServerApplied(sv) == sv.seen /\ ~sv.err /\ ~sv.dirty

(* agentDesired serves only the latest revision and nothing in maintenance;
   an apply that fails is rolled back to the revision that ran before. *)
Fetchable(sv)  == ~sv.maint /\ sv.published /\ ~sv.current
Applied(sv)    == [sv EXCEPT !.run = sv.doc, !.current = TRUE, !.failed = FALSE]
ApplyFails(sv) == [sv EXCEPT !.failed = TRUE]

(* agentApplyReport and the heartbeat: revision and error of the last apply. *)
Reported(sv) == [sv EXCEPT !.seen = sv.current, !.err = sv.failed]
=============================================================================

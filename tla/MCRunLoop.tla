------------------------------ MODULE MCRunLoop ------------------------------
(* Small instances of RunLoop for TLC. *)
EXTENDS RunLoop

Asked(parts) == [Request(parts) EXCEPT !.own = FALSE]
Before == <<Asked({"prompt"}), [Response({"text"}, 0) EXCEPT !.own = FALSE]>>
OldReminder == [Asked({"reminder"}) EXCEPT !.id = -1]

Plain == [resumes |-> FALSE, streamed |-> FALSE, early |-> FALSE, tool |-> FALSE,
          wrapper |-> FALSE, summarizes |-> FALSE, system |-> "none", budget |-> 1,
          limits |-> None0, carried |-> None0, history |-> <<>>]

Judged == {[Plain EXCEPT !.streamed = s, !.early = e, !.tool = t] :
            s \in BOOLEAN, e \in BOOLEAN, t \in BOOLEAN}
Prompted == {[Plain EXCEPT !.system = p] : p \in {"static", "dynamic"}}
Counted == {[Plain EXCEPT !.limits = [requests |-> r, tokens |-> t], !.carried = c,
                          !.summarizes = TRUE, !.history = Before] :
            r \in {0, 2}, t \in {0, 3}, c \in {None0, One}}
Resumed == {[Plain EXCEPT !.resumes = TRUE, !.wrapper = w, !.history = h] :
            w \in BOOLEAN, h \in {Before \o <<[OldReminder EXCEPT !.parts = @ \cup {"prompt"}]>>,
                                  <<OldReminder>>}}
Reminded == {[Plain EXCEPT !.history = Before \o <<OldReminder>>]}

Bounded == {[Plain EXCEPT !.resumes = TRUE, !.wrapper = TRUE, !.history = <<Asked({"prompt"})>>,
                          !.limits = [requests |-> 2, tokens |-> 2], !.carried = One]}

MCRuns == Judged \cup Prompted \cup Counted \cup Resumed \cup Reminded \cup Bounded
=============================================================================

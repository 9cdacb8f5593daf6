------------------------------ MODULE MCSourceSync ------------------------------
EXTENDS SourceSync, TLC

CONSTANTS w1, w2, s1, s2

Quietly == [commands |-> 0, changes |-> 0, crashes |-> 0]
AllFailures == {"rate_limited", "unauthorized", "unavailable", "refused"}

\* One stream, one worker, listed by key, nothing goes wrong.
Plain == [workers |-> {w1}, streams |-> {s1}, byOffset |-> FALSE, checker |-> FALSE,
          minMissing |-> 1, failures |-> {}, commands |-> {},
          items |-> 1, runs |-> 1, slots |-> 2, limits |-> Quietly]

\* Two streams, two workers, every failure.
Failing == [Plain EXCEPT !.workers = {w1, w2}, !.streams = {s1, s2},
                         !.failures = AllFailures, !.slots = 3]

\* Two workers at overlapping runs of a stream while its items change.
Overlapping == [Plain EXCEPT !.workers = {w1, w2}, !.items = 3, !.runs = 2, !.slots = 3,
                             !.limits.changes = 1]

\* Every missing item is checked; the operator, and the operator and a crash, come between.
\* Listed by position: an item may be skipped, but not deleted.
Checked == [Plain EXCEPT !.checker = TRUE, !.byOffset = TRUE, !.commands = {"pause", "enable", "remove"},
                         !.items = 2, !.runs = 2,
                         !.limits = [commands |-> 2, changes |-> 1, crashes |-> 0]]
Dying == [Checked EXCEPT !.byOffset = FALSE, !.commands = {"pause", "remove"},
                         !.limits = [commands |-> 1, changes |-> 1, crashes |-> 1]]

Everything == {Failing, Overlapping, Checked, Dying}

\* A page comes, or goes on, after its run was finished: because the server died in between, or
\* because the source denied the run at another stream's page.  No deletion is suspended.
Redelivered == [Plain EXCEPT !.items = 3, !.minMissing = 10, !.limits.crashes = 1]
Denied == [Plain EXCEPT !.streams = {s1, s2}, !.items = 2, !.minMissing = 10,
                        !.slots = 3, !.failures = {"unauthorized"}]
Forgotten == {Redelivered, Denied}

\* A worker saves the source's row it read before the CLI's command.
Operator == {[Plain EXCEPT !.commands = {"pause", "remove"}, !.limits.commands = 2]}

\* Workers are interchangeable.
Symmetry == Permutations({w1, w2})
================================================================================

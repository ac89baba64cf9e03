---- MODULE MCSourcesStore ----
\* The instance: a core that the firmware release lists, and a homebrew that it does not.
EXTENDS SourcesStore
CONSTANTS r1, r2, b1

\* Bound: the homebrew is a source from a mirror that follows the newest version, without
\* failures, and has no call in flight while one of the core is.
Plain(row) == row # NoRow => row.origin = "url" /\ row.pin = None /\ row.status # "error"
Bounds ==
  /\ Plain(first[r2]) /\ r2 \notin dismissed
  /\ \A c \in calls : c.repo = r2 => /\ c.kind \in {"add", "refresh"}
                                     /\ c.own
                                     /\ \A d \in calls : d.repo # r1
====

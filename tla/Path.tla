-------------------------------- MODULE Path --------------------------------
(***************************************************************************)
(* Paths: packages/std/path/path.c.  The text of a path is the sequence of *)
(* what next_segment cuts it into: one that starts with a slash starts     *)
(* with an empty segment.                                                  *)
(***************************************************************************)
EXTENDS Memory

StartsWithSlash(string) == string # <<>> /\ string[1] = ""

path_execute(stack, segment) ==
  IF segment \in {"", "."} THEN stack
  ELSE IF segment = ".." /\ stack # <<>> /\ stack[Len(stack)] # ".."
    THEN SubSeq(stack, 1, Len(stack) - 1)
  ELSE Append(stack, segment)

path_join(path, string) ==
  LET done[i \in 0 .. Len(string)] ==
        IF i = 0 THEN path.segment_stack ELSE path_execute(done[i - 1], string[i])
  IN  [path EXCEPT !.segment_stack = done[Len(string)]]

path_new(string) ==
  path_join([is_absolute |-> StartsWithSlash(string), segment_stack |-> <<>>], string)

path_resolve(path, string) ==
  path_join(IF StartsWithSlash(string) THEN [is_absolute |-> TRUE, segment_stack |-> <<>>]
            ELSE path, string)

path_string(path) == (IF path.is_absolute THEN <<"">> ELSE <<>>) \o path.segment_stack

path_copy(path) == path_new(path_string(path))

\* The number of segments at the front that both paths have.
find_relative_index(from, to) ==
  LET same == {i \in 0 .. Len(from.segment_stack) :
                 /\ i <= Len(to.segment_stack)
                 /\ \A j \in 1 .. i : from.segment_stack[j] = to.segment_stack[j]}
  IN  CHOOSE i \in same : \A j \in same : j <= i

path_relative(from, to) ==
  LET n == find_relative_index(from, to)
  IN  [is_absolute |-> FALSE,
       segment_stack |-> [i \in 1 .. Len(from.segment_stack) - n |-> ".."]
                           \o SubSeq(to.segment_stack, n + 1, Len(to.segment_stack))]
=============================================================================

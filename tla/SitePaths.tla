----------------------------- MODULE SitePaths -----------------------------
(***************************************************************************)
(* How the file manager turns what a client sends into a path below the    *)
(* document root (normalizeRelativePath, filepath.Join, isWithinRoot), and *)
(* which document roots CreateSite accepts (isValidRootPath).              *)
(*                                                                         *)
(* A path is the sequence of segments between its slashes, as              *)
(* strings.Split yields it: an absolute path begins with an empty segment, *)
(* a double slash or a trailing slash holds one, and the empty string is   *)
(* one empty segment.  Backslashes count as slashes from the first line on *)
(* (strings.ReplaceAll), so they do not occur.                             *)
(***************************************************************************)
EXTENDS Naturals, Sequences, SequencesExt

CONSTANTS
  Segments,  \* segments of the inputs: "", ".", ".." and names
  MaxLen     \* bound: segments per path

ASSUME SegmentsAssumption == {"", ".", ".."} \subseteq Segments /\ MaxLen \in Nat

VARIABLES
  raw,         \* the path in the request
  root,        \* Site.RootPath, as it was sent with the site
  allowEmpty,  \* the root itself is allowed (listing) or not
  result       \* the answer, once computed

vars == <<raw, root, allowEmpty, result>>

Inputs == UNION {[1 .. n -> Segments] : n \in 1 .. MaxLen}
Pending == [state |-> "pending", path |-> << >>]
Error == [state |-> "error", path |-> << >>]
Ok(p) == [state |-> "ok", path |-> p]

-----------------------------------------------------------------------------
\* path.Clean of a rooted path: the empty and "." segments go, ".." takes the
\* segment before it away, and at the root it has no effect (external).
Clean(segments) ==
  LET Push(stack, s) == CASE s \in {"", "."} -> stack
                          [] s = ".." -> IF stack = << >> THEN stack ELSE Front(stack)
                          [] OTHER -> Append(stack, s)
  IN  FoldLeft(Push, << >>, segments)

\* strings.Contains(clean, ".."): no segment of the inputs but ".." has two dots.
HasDotDot(segments) == \E i \in 1 .. Len(segments) : segments[i] = ".."

IsValidRootPath(p) ==
  /\ Len(p) > 1 /\ p[1] = ""
  /\ Clean(p) # << >>
  /\ ~HasDotDot(Clean(p))

\* Mutant of NormalizeRelativePath: ".." is left to path.Clean.
NormalizeRelativePathCleaned(p, empty) ==
  CASE p = <<"">> -> IF empty THEN Ok(<< >>) ELSE Error
    [] p # <<"">> /\ p[1] = "" -> Error
    [] OTHER -> IF Clean(p) = << >> /\ ~empty THEN Error ELSE Ok(Clean(p))

NormalizeRelativePath(p, empty) ==
  CASE p = <<"">> -> IF empty THEN Ok(<< >>) ELSE Error
    [] p # <<"">> /\ (p[1] = "" \/ HasDotDot(p)) -> Error
    [] OTHER -> IF Clean(p) = << >> /\ ~empty THEN Error ELSE Ok(Clean(p))

IsWithinRoot(r, target) == IsPrefix(Clean(r), Clean(target))

\* The path every file operation works on, or ErrInvalidPath.
FullPath(r, p, empty) ==
  LET rel == NormalizeRelativePath(p, empty) IN
  IF rel.state = "error" THEN Error
  ELSE IF IsWithinRoot(r, r \o rel.path) THEN Ok(Clean(r \o rel.path)) ELSE Error

-----------------------------------------------------------------------------
Init ==
  /\ raw \in Inputs
  /\ root \in {p \in Inputs : IsValidRootPath(p)}
  /\ allowEmpty \in BOOLEAN
  /\ result = Pending

Resolve ==
  /\ result = Pending
  /\ result' = FullPath(root, raw, allowEmpty)
  /\ UNCHANGED <<raw, root, allowEmpty>>

Next == Resolve
Spec == Init /\ [][Next]_vars

-----------------------------------------------------------------------------
(* Properties.                                                               *)

\* Where the kernel would go from directory from along the segments.
Walk(from, segments) ==
  LET Step(at, s) == CASE s \in {"", "."} -> at
                       [] s = ".." -> IF at = << >> THEN at ELSE Front(at)
                       [] OTHER -> Append(at, s)
  IN  FoldLeft(Step, from, segments)

\* Every prefix of the walk stays at or below the root.
StaysBelow(from, segments) ==
  \A n \in 0 .. Len(segments) :
    IsPrefix(from, Walk(from, SubSeq(segments, 1, n)))

\* What is accepted is the place the client's path names, seen from the root
\* the way the kernel would resolve it, and the way there never leaves the
\* root; the root itself is the answer only where it is allowed.  What is
\* refused had a reason: an absolute path, a ".." segment, or a path that names
\* the root where a file or directory below it is needed.
VerdictIsRight ==
  /\ result.state = "ok" =>
       /\ result.path = Walk(Clean(root), raw)
       /\ StaysBelow(Clean(root), raw)
       /\ result.path = Clean(root) => allowEmpty
  /\ result.state = "error" =>
       \/ raw[1] = "" /\ (Len(raw) > 1 \/ ~allowEmpty)
       \/ HasDotDot(raw)
       \/ Walk(<< >>, raw) = << >> /\ ~allowEmpty
=============================================================================

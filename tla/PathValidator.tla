--------------------------- MODULE PathValidator ---------------------------
(***************************************************************************)
(* validatePath (part_000:419-446), with the filepath.Clean it starts     *)
(* from.  Every file handler (Put, Remove, TransferToRemote) gates its     *)
(* path with validatePath and then opens the translated path.              *)
(*                                                                         *)
(* A path string is the list of its "/"-separated segments: "/tmp/x" is    *)
(* <<"", "tmp", "x">> and "" is <<"">>.  Segments are drawn from Tokens;   *)
(* DotDotTokens are those that contain the substring "..".                 *)
(***************************************************************************)
EXTENDS Naturals, Sequences, SequencesExt

CONSTANTS
    Tokens,        \* segment values, "" "." ".." "tmp" "var" included
    DotDotTokens,  \* the tokens that contain ".." as a substring
    MaxSegments    \* bound on the segments of an input path

ASSUME {"", ".", "..", "tmp", "var"} \subseteq Tokens
ASSUME DotDotTokens \subseteq Tokens /\ ".." \in DotDotTokens

VARIABLES
    path,      \* the raw path a request carries
    verdict    \* what validatePath returned: "pending", "ok" or "error"

vars == <<path, verdict>>

Inputs == {s \in BoundedSeq(Tokens, MaxSegments) : s # <<>>}

\* A leading "/": the string starts with the separator.
Rooted(s) == Len(s) >= 2 /\ s[1] = ""

(***************************************************************************)
(* filepath.Clean: drop empty and "." elements, let ".." remove the       *)
(* element before it (at the root it is dropped; in a relative path with   *)
(* nothing to remove it is kept).  The result is kept as a rooted flag and *)
(* its elements: "/" + Join(elems, "/"), or Join(elems, "/") or ".".       *)
(***************************************************************************)
Clean(s) ==
    LET rooted == Rooted(s)
        step(out, e) ==
            IF e \in {"", "."} THEN out
            ELSE IF e = ".." /\ out # <<>> /\ Last(out) # ".." THEN Front(out)
            ELSE IF e = ".." /\ rooted THEN out
            ELSE Append(out, e)
    IN  [rooted |-> rooted, elems |-> FoldLeft(step, <<>>, s)]

\* strings.HasPrefix(p, dir + "/") for a directory given by its elements.
UnderDir(c, dir) == c.rooted /\ Len(c.elems) > Len(dir) /\ IsPrefix(dir, c.elems)

AllowedDirs == {<<"tmp">>, <<"var", "tmp">>}

\* validatePath: absolute after cleaning, no ".." anywhere in the cleaned
\* string, and under /tmp/ or /var/tmp/.
validatePath(p) ==
    LET c == Clean(p)
    IN  IF ~c.rooted THEN "error"
        ELSE IF \E i \in 1 .. Len(c.elems) : c.elems[i] \in DotDotTokens THEN "error"
        ELSE IF \E dir \in AllowedDirs : UnderDir(c, dir) THEN "ok"
        ELSE "error"

Init ==
    /\ path \in Inputs
    /\ verdict = "pending"

\* A handler validates the path of its request.
Validate ==
    /\ verdict = "pending"
    /\ verdict' = validatePath(path)
    /\ UNCHANGED path

Spec == Init /\ [][Validate]_vars

(***************************************************************************)
(* Properties                                                              *)
(***************************************************************************)

(***************************************************************************)
(* spec.md 4.1 and 8: reject a path that is not absolute; normalise it;    *)
(* reject it when a parent-traversal segment is left; accept it exactly    *)
(* when it is then under an allow-listed directory.                        *)
(***************************************************************************)
SpecAccepts(p) ==
    /\ Rooted(p)
    /\ ".." \notin ToSet(Clean(p).elems)
    /\ \E dir \in AllowedDirs : UnderDir(Clean(p), dir)

\* validatePath accepts exactly the paths spec.md 4.1 accepts.
ValidatorMatchesSpec == verdict # "pending" => (verdict = "ok" <=> SpecAccepts(path))
=============================================================================

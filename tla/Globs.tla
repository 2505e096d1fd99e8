------------------------------- MODULE Globs -------------------------------
(***************************************************************************)
(* Glob patterns and the test for an overlap of two sets of them           *)
(* (crates/wanax-core/src/glob_overlap.rs), with the matcher of the        *)
(* globset crate as the code sets it up: literal_separator(false), so that *)
(* a star also matches "/".                                                *)
(*                                                                         *)
(* A pattern and a path are sequences of tokens, each a piece of text.     *)
(* The tokens of a pattern with a meaning of their own are "*" (any text), *)
(* "**/" (nothing, or any text that ends in "/") and "[" (a class that is  *)
(* never closed: the pattern does not compile).  "x/**" at the end of a    *)
(* pattern is "x/" and any text, which is what "x/*" is.                   *)
(***************************************************************************)
EXTENDS Integers, Sequences, Functions

CONSTANTS
    Patterns,   \* the patterns that occur
    Paths       \* the repo-relative paths that are tried as a common path

Stars == {"*", "**/"}

Compiles(p) == "[" \notin Range(p)

\* Both readings of "**/", as patterns of text and "*" alone.
Readings(p) ==
    LET D == {i \in DOMAIN p : p[i] = "**/"}
        at == CHOOSE i \in D : TRUE
        before == SubSeq(p, 1, at - 1)
        after  == SubSeq(p, at + 1, Len(p))
    IN IF D = {} THEN {p} ELSE {before \o after, before \o <<"*", "/">> \o after}

\* Does the text match the pattern?  Entry <<i, j>> says so of what the text has from
\* token j on, and the pattern from token i on.
Matches(pat, text) ==
    LET m[at \in (1 .. Len(pat) + 1) \X (1 .. Len(text) + 1)] ==
          LET i == at[1]
              j == at[2]
          IN IF i > Len(pat) THEN j > Len(text)
             ELSE IF pat[i] = "*"
                  THEN m[<<i + 1, j>>] \/ (j <= Len(text) /\ m[<<i, j + 1>>])
                  ELSE j <= Len(text) /\ pat[i] = text[j] /\ m[<<i + 1, j + 1>>]
    IN m[<<1, 1>>]

\* is_match of the set compiled from globs.
Hits(globs, path) ==
    \E p \in globs : \E pat \in Readings(p) : Matches(pat, path)

\* The tokens before the first star, without "/" at the end.
Prefix(p) ==
    LET star == CHOOSE i \in DOMAIN p : p[i] \in Stars
                                        /\ \A j \in 1 .. i - 1 : p[j] \notin Stars
        full == SubSeq(p, 1, star - 1)
        n == CHOOSE k \in 0 .. Len(full) :
                /\ k > 0 => full[k] # "/"
                /\ \A i \in k + 1 .. Len(full) : full[i] = "/"
    IN SubSeq(full, 1, n)

HasStar(p) == Range(p) \cap Stars # {}

\* A bug: the prefix alone stands for the files below it.
ProbesOfPrefix(p) == IF HasStar(p) THEN {Prefix(p)} ELSE {p}

\* pattern_probes
Probes(p) ==
    CASE ~ HasStar(p) -> {p}
      [] HasStar(p) /\ Prefix(p) = << >> ->
            {<<"file", ".rs">>, <<"src", "/", "file", ".rs">>,
             <<"a", "/", "b", "/", "c", ".rs">>}
      [] HasStar(p) /\ Prefix(p) # << >> ->
            {Prefix(p), Prefix(p) \o <<"/", "file", ".rs">>,
             Prefix(p) \o <<"/", "nested", "/", "x", ".rs">>}

\* peer_glob_sets_overlap
Overlap(a, b) ==
    /\ a # {} /\ b # {}
    /\ \/ a \cap b # {}
       \/ \E p \in a \cup b : ~ Compiles(p)
       \/ \E p \in a \cup b : \E path \in Probes(p) : Hits(a, path) /\ Hits(b, path)

\* A bug: the directory stands for what is below it.
PeerProbeOfPrefix(p) == IF HasStar(p) THEN Prefix(p) ELSE p

\* peer_probe_paths, of one glob: the path that stands for what it allows.
PeerProbe(p) ==
    CASE ~ HasStar(p) -> p
      [] HasStar(p) /\ Prefix(p) = << >> -> <<"file", ".rs">>
      [] HasStar(p) /\ Prefix(p) # << >> -> Prefix(p) \o <<"/", "file", ".rs">>

----------------------------------------------------------------------------
(* The reference: what an overlap is. *)

Language == [p \in Patterns |-> {path \in Paths : Hits({p}, path)}]

Meet(a, b) == \E p \in a, q \in b : Language[p] \cap Language[q] # {}

\* A file, or everything below a directory ("*" and "**" are the whole tree).
Tree(p) ==
    /\ Compiles(p)
    /\ \/ ~ HasStar(p)
       \/ p = <<"*">>
       \/ /\ Len(p) > 2 /\ p[Len(p)] = "*" /\ p[Len(p) - 1] = "/" /\ p[Len(p) - 2] # "/"
          /\ \A i \in 1 .. Len(p) - 1 : p[i] \notin Stars
============================================================================

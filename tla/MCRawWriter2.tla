---------------------------- MODULE MCRawWriter2 ----------------------------
(***************************************************************************)
(* Instances of RawWriter2 for TLC.                                        *)
(***************************************************************************)
EXTENDS RawWriter2, TLC

CONSTANTS r1, r2, r3, k1, k2, a, b, c, dev

Name(segs, seps) == [segs |-> segs, seps |-> seps]

Request(large, text, key, path) ==
    [large |-> large, text |-> text, key |-> key, provider |-> path]

\* A client sends a large payload twice, once without a text content type, so
\* the objects differ only in the suffix; another sends a small one, and has
\* an escaped "/" in its path: /a/b%2Fc/...
RetryAttr ==
    r1 :> Request(TRUE, TRUE, k1, Name(<<a, b>>, <<"/">>)) @@
    r2 :> Request(TRUE, FALSE, k1, Name(<<a, b>>, <<"/">>)) @@
    r3 :> Request(FALSE, TRUE, k2, Name(<<a, b, c>>, <<"/", "/">>))

DocSymmetry == Permutations(Docs)
=============================================================================

------------------------------ MODULE MCUpdate ------------------------------
(* A small instance of Update for TLC: the release that runs, one that     *)
(* cannot start, one too large for its slot, and a build without a tag.    *)
EXTENDS Update

Release(version, fits, starts) == [version |-> version, fits |-> fits, starts |-> starts]
MCReleases == {Release(<<0, 1, 9>>, TRUE, TRUE), Release(<<0, 2, 0>>, TRUE, FALSE),
               Release(<<1, 0, 0>>, FALSE, TRUE), Release(Unreadable, TRUE, TRUE)}
=============================================================================

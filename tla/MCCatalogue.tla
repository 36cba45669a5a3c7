---------------------------- MODULE MCCatalogue -----------------------------
(* Small instances of Catalogue for TLC. *)
EXTENDS Catalogue, TLC

CONSTANTS n1, n2, s1, d1, d2, a1, a2

TwoIds == {1, 2}
OneId == {1}

Form(orig, slug, st, d, px, ws, names) ==
    [orig |-> orig, slug |-> slug, st |-> st, dest |-> d, px |-> px,
     ws |-> ws, names |-> names]

\* Forms that create, edit, enable and rename services, with and without groups,
\* and two that are not valid.
SomeForms ==
    {Form(NoSlug, a1, "disabled", d1, TRUE, FALSE, {}),
     Form(a1, a1, "disabled", d1, TRUE, TRUE, {}),
     Form(a1, a1, "disabled", d1, FALSE, FALSE, {}),
     Form(a1, a2, "enabled", d1, TRUE, FALSE, {n1}),
     Form(a2, a2, "enabled", d2, TRUE, FALSE, {n1, n2}),
     Form(a1, a1, "enabled", d2, FALSE, FALSE, {}),
     Form(a1, a1, "disabled", d1, FALSE, TRUE, {})}

Symmetric == Permutations(Users) \cup Permutations(Editors)
=============================================================================

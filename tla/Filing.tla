------------------------------- MODULE Filing -------------------------------
(***************************************************************************)
(* What an archive files and exports, one question at a time: the address  *)
(* a page is filed under, the vault an export writes, and the name of a    *)
(* note in it; and what decides that a page is an article at all, and the  *)
(* file of rules that has a say in it.                                     *)
(***************************************************************************)
EXTENDS Boundary

CONSTANTS
    Tracking,                         \* CanonicalForm
    SlugMaxBytes,                     \* Slug
    MinArticleChars, ShareDenominator, MaxText, MaxMarkdown,   \* Admission
    MaxRulesBytes                     \* SiteRules

ASSUME FilingAssumption ==
    /\ SlugMaxBytes \in Nat \ {0}
    /\ ShareDenominator \in Nat \ {0}
    /\ {MinArticleChars, MaxText, MaxMarkdown, MaxRulesBytes} \subseteq Nat

C == INSTANCE CanonicalForm
X == INSTANCE Export
W == INSTANCE Slug
A == INSTANCE Admission
G == INSTANCE SiteRules

\* What an archive files and exports: a page has one address, however it is
\* spelled; notes have different names, links and pictures that lead to what
\* they led to, and a panic only where two captures share an id.  What it
\* takes for an article: more prose is no less of one, and a file of rules is
\* reported where it cannot be read, and in force under each site as its
\* address is filed.
FilingIsFaithful ==
    /\ of = "addresses" => C!OneItem(question[1], question[2])
    /\ of = "vault" => X!VaultIsWhole(question.archive, question.all, question.failing, question.created)
    /\ of = "slugs" => W!SlugIsAName(question.title, question.path, <<"id">>)
    /\ of = "judged" => A!AdmissionIsMonotone(question)
    /\ of = "rules" => G!RulesDegrade(question.file, question.page)
=============================================================================

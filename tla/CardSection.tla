----------------------------- MODULE CardSection -----------------------------
(***************************************************************************)
(* The page CardSection: printing and restoring cards (CardIssuance) and   *)
(* topping them up (CardsPage).  The two share no state of the page and    *)
(* their drawers are modal; a behaviour shows one of the two.              *)
(***************************************************************************)
EXTENDS CardIssuance

CONSTANTS Visits, Limit

VARIABLES
    part,    \* which of the two this behaviour shows
    visit, left, chip, rows, member, listed, nfc, writes, journal, page, lookups, reads, closing, jobs, confirmed,
    checked, undone, overtaken

Nothing == NoCard

Page == INSTANCE CardsPage

ASSUME SectionAssumption == Page!PageBounds /\ Page!NothingApart

pageVars == <<visit, left, chip, rows, member, listed, nfc, writes, journal, page, lookups, reads, closing, jobs,
              confirmed, checked, undone, overtaken>>

SectionInit ==
    /\ IssueInit /\ Page!Init
    /\ \/ part = "issue" /\ visit = CHOOSE v \in Visits : TRUE
       \/ /\ part = "page" /\ profile = CHOOSE p \in Profiles : TRUE
          /\ \A c \in Cards : carries[c] = Blank /\ row[c] = NoRow /\ c \in server

SectionNext ==
    /\ \/ part = "issue" /\ IssueNext /\ UNCHANGED pageVars
       \/ part = "page" /\ Page!Next /\ UNCHANGED issueVars
    /\ UNCHANGED part

IssueFairness == \A n \in Numbers : WF_issueVars(TimeOut(n)) /\ WF_issueVars(CodeStep(n))

SectionSpec == SectionInit /\ [][SectionNext]_<<issueVars, pageVars, part>> /\ IssueFairness /\ Page!PageFairness

-----------------------------------------------------------------------------
(* What the cards carry, what the list says of them and what becomes of    *)
(* a member's cards: CardAndRowAgree of CardIssuance, and PageBooksAgree.  *)
BooksAgree == CardAndRowAgree /\ Page!PageBooksAgree

(* No card is written that the operator did not mean: AsksBeforeOverwriting*)
(* of CardIssuance, and LandsAsConfirmed.                                  *)
WritesAreMeant == AsksBeforeOverwriting /\ Page!LandsAsConfirmed

(* Attempts, writes and drawers come to an end: AttemptEnds of             *)
(* CardIssuance, and DrawerCloses.                                         *)
VisitEnds == AttemptEnds /\ Page!DrawerCloses

CheckedBeforeTopup == Page!CheckedBeforeTopup
=============================================================================

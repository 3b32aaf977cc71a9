--------------------------- MODULE CertificateLog ---------------------------
(***************************************************************************)
(* intelligence.rs, Certificate Transparency: the pages of a log are read  *)
(* one after the other, the names found are looked up in DNS, some at a    *)
(* time.  A name is a number: Primary, one of Under, or any other.         *)
(***************************************************************************)
EXTENDS SourceFetch

CONSTANTS
    Primary, Under,             \* the target's name, the names below it
    LogResponses,               \* what a page request may bring
    MaxCtPages, MaxCtCandidates, MaxCtDnsConcurrency, MaxCtResponseBytes

ASSUME LogAssumption ==
    /\ Under \subseteq Nat /\ Primary \in Nat \ Under
    /\ {MaxCtPages, MaxCtDnsConcurrency} \subseteq Nat \ {0} /\ {MaxCtCandidates, MaxCtResponseBytes} \subseteq Nat
    /\ \A response \in LogResponses :
          response.page \in Seq([id : BOOLEAN, names : Seq([wildcard : BOOLEAN, name : Nat])])

VARIABLES
    logAt,         \* "page", "verify", "done", or "failed": an Err
    issuances,     \* those of the pages read so far
    paging,        \* [pages, ended]: the pages counted, whether the log ended
    candidates,    \* the names found and their status
    unasked, asked,\* the candidates (indices) to look up and those being looked up
    answers,       \* the lookups' results, by index
    logErrors, logComplete

logVars == <<logAt, issuances, paging, candidates, unasked, asked, answers, logErrors, logComplete, fetchVars>>
verifyVars == <<candidates, unasked, asked, answers, logComplete>>

Conclusive == {"Resolved", "NoAddress", "NxDomain"}

LogTypeOK ==
    /\ FetchTypeOK /\ logAt \in {"page", "verify", "done", "failed"}
    /\ paging \in [pages : 0 .. MaxCtPages, ended : BOOLEAN] /\ Len(candidates) <= MaxCtCandidates
    /\ \A i \in DOMAIN candidates : candidates[i].status \in Conclusive \cup {"NotChecked", "Indeterminate"}
    /\ Cardinality(asked) <= MaxCtDnsConcurrency

\* Either no hostname was given, which is an Err at once, or the pages are read.
LogInit ==
    /\ FetchInit /\ logAt \in {"page", "failed"}
    /\ issuances = <<>> /\ paging = [pages |-> 0, ended |-> FALSE] /\ candidates = <<>>
    /\ unasked = {} /\ asked = {} /\ answers = <<>> /\ logErrors = {} /\ logComplete = FALSE

-----------------------------------------------------------------------------

\* ct_candidates: the names below the primary one and its wildcard; how often each is issued.
Counted(n) == n.name \in Under \/ (n.wildcard /\ n.name = Primary)
Found(issued) == {n \in UNION {ToSet(issued[i].names) : i \in DOMAIN issued} : Counted(n)}
Occurrences(n, issued) ==
    UNION {{i} \X {k \in DOMAIN issued[i].names : issued[i].names[k] = n} : i \in DOMAIN issued}

Sooner(m, n) == (m.wildcard /\ ~n.wildcard) \/ (m.wildcard = n.wildcard /\ m.name < n.name)   \* "*" sorts first
Nth(names, i) == CHOOSE n \in names : Cardinality({m \in names : Sooner(m, n)}) = i - 1
ct_candidates(issued) ==
    [i \in 1 .. Min({Cardinality(Found(issued)), MaxCtCandidates}) |->
        LET n == Nth(Found(issued), i)
        IN  [name |-> n, status |-> "NotChecked", issued |-> Cardinality(Occurrences(n, issued))]]

\* The loop ends: candidates are built, and what is missing is said.
Close(issued, ended, errors) ==
    LET cut == Cardinality(Found(issued)) > MaxCtCandidates
        found == ct_candidates(issued)
    IN  /\ logAt' = "verify" /\ candidates' = found
        /\ unasked' = {i \in DOMAIN found : ~found[i].name.wildcard}
        /\ logComplete' = (ended /\ ~cut)
        /\ logErrors' = errors \cup (IF ~ended /\ errors = {} THEN {"page limit"} ELSE {})
                               \cup (IF cut THEN {"candidate limit"} ELSE {})

\* A page that cannot be had: an Err while there is nothing, an error of the observation later.
PageFails_Bug(reason) ==   \* a page that fails is where the log ends
    /\ paging' = [paging EXCEPT !.ended = TRUE] /\ UNCHANGED <<issuances, asked, answers>>
    /\ IF issuances = <<>> THEN logAt' = "failed" /\ UNCHANGED <<candidates, unasked, logErrors, logComplete>>
       ELSE Close(issuances, TRUE, {reason})

PageFails(reason) ==
    /\ UNCHANGED <<issuances, paging, asked, answers>>
    /\ IF issuances = <<>> THEN logAt' = "failed" /\ UNCHANGED <<candidates, unasked, logErrors, logComplete>>
       ELSE Close(issuances, FALSE, {reason})

\* fetch_certspotter_page and what the loop does with the page.
PageRead(response) ==
    LET fetched == get_bounded(response, MaxCtResponseBytes)
    IN  IF fetched # "body" THEN PageFails(fetched)
        ELSE IF ~response.valid THEN PageFails("invalid")
        ELSE IF response.page = <<>>
        THEN /\ paging' = [pages |-> paging.pages + 1, ended |-> TRUE] /\ UNCHANGED <<issuances, asked, answers>>
             /\ Close(issuances, TRUE, {})
        ELSE IF ~Last(response.page).id THEN PageFails("no pagination ID")
        ELSE /\ paging' = [paging EXCEPT !.pages = @ + 1] /\ issuances' = issuances \o response.page
             /\ UNCHANGED <<asked, answers>>
             /\ IF paging.pages + 1 = MaxCtPages THEN Close(issuances', FALSE, {})
                ELSE UNCHANGED <<logAt, candidates, unasked, logErrors, logComplete>>

FetchPage ==
    /\ logAt = "page" /\ UNCHANGED ending
    /\ \E outcome \in ClientOutcomes : /\ ClientFor("certspotter", outcome)
          /\ IF outcome # "client" THEN PageFails(outcome)
             ELSE \/ \E failure \in Failures : PageFails(failure)
                  \/ ~ending.token /\ \E response \in LogResponses : PageRead(response)

-----------------------------------------------------------------------------
(* verify_ct_candidates                                                    *)

Settled(statuses, whole) ==
    /\ logAt' = "done" /\ logComplete' = (logComplete /\ whole)
    /\ candidates' = [i \in DOMAIN candidates |->
                         IF i \in DOMAIN statuses THEN [candidates[i] EXCEPT !.status = statuses[i]] ELSE candidates[i]]
    /\ logErrors' = logErrors \cup (IF whole THEN {} ELSE {"verification incomplete"})

\* Without a resolver no name is looked up.
NoResolver ==
    /\ logAt = "verify" /\ unasked # {} /\ asked = {} /\ answers = <<>>
    /\ Settled([i \in unasked |-> "Indeterminate"], FALSE) /\ unasked' = {}
    /\ UNCHANGED <<issuances, paging, asked, answers, fetchVars>>

Ask == /\ logAt = "verify" /\ unasked # {} /\ Cardinality(asked) < MaxCtDnsConcurrency
       /\ asked' = asked \cup {Min(unasked)} /\ unasked' = unasked \ {Min(unasked)}
       /\ UNCHANGED <<logAt, issuances, paging, candidates, answers, logErrors, logComplete, fetchVars>>

Answer_Bug(i) ==   \* once the token is set no lookup answers
    /\ ~ending.token /\ \E answer \in Conclusive \cup {"Indeterminate"} :
          answers' = [j \in DOMAIN answers \cup {i} |-> IF j = i THEN answer ELSE answers[j]]
    /\ asked' = asked \ {i}
    /\ UNCHANGED <<logAt, issuances, paging, candidates, unasked, logErrors, logComplete, fetchVars>>

\* The answers a lookup may have: a token that is set is the answer, a timeout is Failed
\* at any time, and a lookup started after the deadline may still answer at once.
Answer(i) ==
    /\ \E answer \in IF ending.token THEN {"Indeterminate"} ELSE Conclusive \cup {"Indeterminate"} :
          answers' = [j \in DOMAIN answers \cup {i} |-> IF j = i THEN answer ELSE answers[j]]
    /\ asked' = asked \ {i}
    /\ UNCHANGED <<logAt, issuances, paging, candidates, unasked, logErrors, logComplete, fetchVars>>

Answered == /\ logAt = "verify" /\ (unasked = {} \/ Cardinality(asked) = MaxCtDnsConcurrency)
            /\ \E i \in asked : Answer(i)

\* The results come in the order the lookups ended and are put where they belong.
Verified_Bug ==   \* put one after the other
    /\ logAt = "verify" /\ unasked = {} /\ asked = {}
    /\ Settled([i \in 1 .. Cardinality(DOMAIN answers) |-> answers[SetToSeq(DOMAIN answers)[i]]],
               \A i \in DOMAIN answers : answers[i] # "Indeterminate")
    /\ UNCHANGED <<issuances, paging, unasked, asked, answers, fetchVars>>

Verified ==
    /\ logAt = "verify" /\ unasked = {} /\ asked = {}
    /\ Settled(answers, \A i \in DOMAIN answers : answers[i] # "Indeterminate")
    /\ UNCHANGED <<issuances, paging, unasked, asked, answers, fetchVars>>

EndLog == logAt \notin {"done", "failed"} /\ EndSource
          /\ UNCHANGED <<logAt, issuances, paging, candidates, unasked, asked, answers, logErrors, logComplete>>
LogStep == FetchPage \/ NoResolver \/ Ask \/ Answered \/ Verified
LogNext == LogStep \/ EndLog

-----------------------------------------------------------------------------

\* A log is called complete only when its end was read and every name it holds
\* of the target is a candidate that DNS answered for; when it is not complete
\* an error says so, and none does otherwise (analyze_certificate_transparency).
CompleteLogIsWhole ==
    /\ logAt = "done" /\ logComplete =>
          /\ paging.ended /\ {candidates[i].name : i \in DOMAIN candidates} = Found(issuances)
          /\ \A i \in DOMAIN candidates : candidates[i].name.wildcard \/ candidates[i].status \in Conclusive
    /\ logAt = "done" => (logComplete <=> logErrors = {})

\* What earlier pages brought is never lost to a later one that fails: an Err
\* means nothing had been read, and an observation holds a candidate for every
\* name that the limit leaves room for, a wildcard never looked up.
PagesAreKept ==
    /\ logAt = "failed" => issuances = <<>>
    /\ logAt = "done" =>
          /\ Len(candidates) = Min({MaxCtCandidates, Cardinality(Found(issuances))})
          /\ \A i \in DOMAIN candidates : candidates[i].name.wildcard <=> candidates[i].status = "NotChecked"
=============================================================================

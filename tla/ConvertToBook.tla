---------------------------- MODULE ConvertToBook ----------------------------
(***************************************************************************)
(* The wizard that makes a book of articles (ConvertToBookWizard.tsx) and  *)
(* its handler, create_book_from_articles in books.py.  The wizard works   *)
(* on the articles as the page listed them: it sorts them for the user,    *)
(* sends their ids and the strategy, and the server sorts its own rows     *)
(* once more.  Before the book it may add the author to the authors'       *)
(* database; each request may fail, and the user may then try again.       *)
(*                                                                         *)
(* Titles and dates are what the sorts see of an article.  Book metadata   *)
(* other than the author is copied and left out.                           *)
(***************************************************************************)
EXTENDS Naturals, FiniteSets, SequencesExt

CONSTANTS
  Listed,      \* the articles the wizard is opened with, in the page's order
  Rows,        \* what they may be: functions from them to [date, title, author]
  Tags,        \* the sets of articles that share a tag
  BrowserRank, \* how localeCompare orders the titles
  ServerRank,  \* how casefold orders them
  Ranks,       \* 1 .. the largest rank, of titles and dates
  Names,       \* what may be typed as the author; "" is nothing
  Matters,     \* choices of chapters before and after the articles
  MaxConvertSteps \* bound on what the user, other tabs and losses do

VARIABLES
  rows,    \* the articles' rows; one in the trash has trashed = TRUE
  authors, \* the authors' database: how many rows bear a name
  books,   \* the books made
  wiz,     \* the wizard
  cCalls,  \* its requests, by kind
  cSteps, cOdd \* steps so far; why the wizard may not know the authors

convVars == <<rows, authors, books, wiz, cCalls, cSteps, cOdd>>

Arts == ToSet(Listed)
Strategies == {"date_asc", "date_desc", "title_asc", "title_desc", "manual"}
Kinds == {"list", "author", "book"}

ConvertTypeOK ==
  /\ \A a \in Arts : rows[a].trashed \in BOOLEAN
  /\ authors \in [Names -> Nat]
  /\ \A k \in DOMAIN books : books[k].asked \in Seq(Arts)
  /\ wiz.step \in 0..5 /\ wiz.selected \subseteq Arts /\ wiz.sort \in Strategies
  /\ ToSet(wiz.manual) = wiz.selected /\ wiz.author \in Names /\ wiz.known \subseteq Names
  /\ wiz.sending \in {"no", "author", "book"} /\ wiz.invalid \subseteq Arts
  /\ \A k \in Kinds : cCalls[k].stage \in {"none", "sent", "ok", "refused", "failed"}
  /\ cSteps \in Nat /\ cOdd \subseteq {"blind", "lost"}

-----------------------------------------------------------------------------
(* Sorting                                                                 *)

\* Both sides sort stably, in either direction.
SortBy(s, rank(_)) == FlattenSeq([k \in Ranks |-> SelectSeq(s, LAMBDA a : rank(a) = k)])

Sorted(s, what, strategy, TitleRank) ==
  LET turned(k) == Cardinality(Ranks) + 1 - k IN
  CASE strategy = "date_asc"   -> SortBy(s, LAMBDA a : what[a].date)
    [] strategy = "date_desc"  -> SortBy(s, LAMBDA a : turned(what[a].date))
    [] strategy = "title_asc"  -> SortBy(s, LAMBDA a : TitleRank[what[a].title])
    [] strategy = "title_desc" -> SortBy(s, LAMBDA a : turned(TitleRank[what[a].title]))

Selected(w) == SelectSeq(Listed, LAMBDA a : a \in w.selected)

SortArticlesPreview(w, strategy) ==
  IF strategy = "manual" THEN w.manual ELSE Sorted(Selected(w), w.seen, strategy, BrowserRank)

Displayed(w) == SortArticlesPreview(w, w.sort)

\* Mutant of OrderedIds: the selection as the page lists it.
OrderedIds_AsListed(w) == Selected(w)

OrderedIds(w) == Displayed(w)

\* The author all selected articles share, if any.
SharedAuthor(w) ==
  LET by == {w.seen[a].author : a \in w.selected}
  IN IF Cardinality(by) = 1 THEN CHOOSE n \in by : TRUE ELSE ""

\* The effect that fills the author in when another one is shared.
Prefilled(w) ==
  IF SharedAuthor(w) # SharedAuthor(wiz) /\ SharedAuthor(w) # "" /\ w.author = ""
  THEN [w EXCEPT !.author = SharedAuthor(w)] ELSE w

-----------------------------------------------------------------------------

NoCall == [stage |-> "none", answer |-> {}]
Sent == [stage |-> "sent", answer |-> {}]

Fresh(seen) ==
  LET w == [open |-> TRUE, step |-> 0, selected |-> Arts, sort |-> "date_asc", manual |-> Listed,
            author |-> "", remember |-> TRUE, known |-> {}, matter |-> {}, seen |-> seen,
            sending |-> "no", invalid |-> {}]
  IN [w EXCEPT !.author = SharedAuthor(w)]

\* The wizard opened and asked for the authors.
ConvertInit ==
  /\ \E r \in Rows : /\ rows = [a \in Arts |-> [r[a] EXCEPT !.trashed = FALSE]]
                     /\ wiz = Fresh(r)
  /\ \E some \in SUBSET (Names \ {""}) : authors = [n \in Names |-> IF n \in some THEN 1 ELSE 0]
  /\ books = <<>> /\ cSteps = 0 /\ cOdd = {}
  /\ cCalls = [k \in Kinds |-> IF k = "list" THEN Sent ELSE NoCall]

UserDoes(w) ==
  /\ wiz.open /\ wiz.sending = "no"
  /\ cSteps < MaxConvertSteps /\ cSteps' = cSteps + 1
  /\ wiz' = w /\ UNCHANGED <<rows, authors, books, cCalls, cOdd>>

\* Moving between the steps costs nothing.
Moves(w) ==
  /\ wiz.open /\ wiz.sending = "no" /\ wiz' = w
  /\ UNCHANGED <<rows, authors, books, cCalls, cSteps, cOdd>>

AtSelection == wiz.step = 0
AtMetadata == wiz.step = 1

\* A row of the selection.
RowOffered(a) == AtSelection /\ a \in wiz.selected

\* A new strategy's order is also where the manual one starts from.
ChangeSort(next) ==
  /\ AtSelection /\ next # wiz.sort
  /\ UserDoes([wiz EXCEPT !.sort = next,
                 !.manual = IF next # "manual" THEN SortArticlesPreview(wiz, next) ELSE @])

\* The row goes to where the other one is, in the manual order, whatever
\* order is displayed.
DragEnd(a, over) ==
  /\ a # over /\ RowOffered(a) /\ RowOffered(over)
  /\ LET to == CHOOSE k \in DOMAIN wiz.manual : wiz.manual[k] = over
     IN UserDoes([wiz EXCEPT !.sort = "manual", !.manual = InsertAt(Remove(@, a), to, a)])

\* Mutant of Keeps: an article that is left out stays in the manual order.
Keeps_InManual(ids) == Prefilled([wiz EXCEPT !.selected = ids])

Keeps(ids) == Prefilled([wiz EXCEPT !.selected = ids, !.manual = SelectSeq(@, LAMBDA a : a \in ids)])

\* The buttons of the tags the selected articles bear.
TagShown(tag) == tag \cap wiz.selected # {}

SelectByTag(tag) ==
  /\ AtSelection /\ TagShown(tag) /\ ~(wiz.selected \subseteq tag)
  /\ UserDoes(Keeps(tag \cap wiz.selected))

RemoveOne(a) == RowOffered(a) /\ UserDoes(Keeps(wiz.selected \ {a}))

ResetSelection ==
  /\ AtSelection /\ wiz.selected # Arts
  /\ UserDoes(Prefilled([wiz EXCEPT !.selected = Arts, !.manual = Listed]))

StepAdvanceable == CASE wiz.step = 0 -> wiz.selected # {}
                     [] wiz.step = 1 -> wiz.author # ""
                     [] OTHER -> TRUE

StepNext == wiz.step < 5 /\ StepAdvanceable /\ Moves([wiz EXCEPT !.step = @ + 1])
StepBack == wiz.step > 0 /\ Moves([wiz EXCEPT !.step = @ - 1])

TypeAuthor(n) == AtMetadata /\ n # wiz.author /\ UserDoes([wiz EXCEPT !.author = n])

ShowAddToAuthors == wiz.author \notin wiz.known \cup {""}
ToggleRemember == AtMetadata /\ ShowAddToAuthors /\ UserDoes([wiz EXCEPT !.remember = ~@])

\* The chapters before and after the articles.
ChooseFront(m) ==
  /\ wiz.step = 2 /\ m # wiz.matter /\ m \cap {"acknowledgments", "bio"} = wiz.matter \cap {"acknowledgments", "bio"}
  /\ UserDoes([wiz EXCEPT !.matter = m])
ChooseBack(m) ==
  /\ wiz.step = 3 /\ m # wiz.matter /\ m \ {"acknowledgments", "bio"} = wiz.matter \ {"acknowledgments", "bio"}
  /\ UserDoes([wiz EXCEPT !.matter = m])

CloseWizard == Moves([wiz EXCEPT !.open = FALSE])

-----------------------------------------------------------------------------
(* Submitting                                                              *)

\* What the book is asked from.
BuildPayload(w) == [ids |-> OrderedIds(w), sort |-> w.sort, matter |-> w.matter, shown |-> Displayed(w),
                    seen |-> w.seen]

\* The review's button.
Confirmable == wiz.open /\ wiz.step = 5 /\ wiz.sending = "no"

\* Everything is disabled until the book is answered, so nothing changes
\* between the two requests.
Submit ==
  /\ Confirmable /\ wiz.author # "" /\ wiz.selected # {}
  /\ cSteps < MaxConvertSteps /\ cSteps' = cSteps + 1
  /\ LET first == IF ShowAddToAuthors /\ wiz.remember THEN "author" ELSE "book"
     IN /\ wiz' = [wiz EXCEPT !.sending = first, !.invalid = {}]
        /\ cCalls' = [cCalls EXCEPT ![first] = Sent]
  /\ cOdd' = IF cCalls["list"].stage # "none" THEN cOdd \cup {"blind"} ELSE cOdd
  /\ UNCHANGED <<rows, authors, books>>

\* Mutant of AuthorAdded: the new author is not noted.
AuthorAdded_Unnoted(w) == w

AuthorAdded(w) == [w EXCEPT !.known = @ \cup {w.author}]

\* Added or not, the book is asked for next.
AuthorAnswered ==
  /\ cCalls["author"].stage \in {"ok", "failed"}
  /\ wiz' = [(IF cCalls["author"].stage = "ok" THEN AuthorAdded(wiz) ELSE wiz) EXCEPT !.sending = "book"]
  /\ cCalls' = [cCalls EXCEPT !["author"] = NoCall, !["book"] = Sent]
  /\ UNCHANGED <<rows, authors, books, cSteps, cOdd>>

\* A refusal names articles, to be removed in the first step.
Refused(w, ids) == [w EXCEPT !.step = 0, !.invalid = ids]

\* The wizard closes on success.
BookAnswered ==
  /\ cCalls["book"].stage \in {"ok", "refused", "failed"}
  /\ wiz' = CASE cCalls["book"].stage = "ok"      -> [wiz EXCEPT !.sending = "no", !.open = FALSE]
              [] cCalls["book"].stage = "refused" -> Refused([wiz EXCEPT !.sending = "no"], cCalls["book"].answer)
              [] OTHER                            -> [wiz EXCEPT !.sending = "no"]
  /\ cCalls' = [cCalls EXCEPT !["book"] = NoCall]
  /\ UNCHANGED <<rows, authors, books, cSteps, cOdd>>

\* The authors arrive, unless the wizard closed; they replace what is known.
AuthorsListed ==
  /\ cCalls["list"].stage \in {"ok", "failed"}
  /\ cCalls' = [cCalls EXCEPT !["list"] = NoCall]
  /\ wiz' = IF wiz.open /\ cCalls["list"].stage = "ok" THEN [wiz EXCEPT !.known = cCalls["list"].answer] ELSE wiz
  /\ cOdd' = IF cCalls["list"].stage = "failed" THEN cOdd \cup {"blind"} ELSE cOdd
  /\ UNCHANGED <<rows, authors, books, cSteps>>

-----------------------------------------------------------------------------
(* The server                                                              *)

Answers(kind, stage, answer) == cCalls' = [cCalls EXCEPT ![kind] = [stage |-> stage, answer |-> answer]]

HandleAuthors ==
  /\ cCalls["list"].stage = "sent" /\ Answers("list", "ok", {n \in Names : authors[n] > 0})
  /\ UNCHANGED <<rows, authors, books, wiz, cSteps, cOdd>>

\* A second author of the same name gets another slug.
HandleAuthorCreate ==
  /\ cCalls["author"].stage = "sent" /\ Answers("author", "ok", {})
  /\ authors' = [authors EXCEPT ![wiz.author] = @ + 1]
  /\ UNCHANGED <<rows, books, wiz, cSteps, cOdd>>

SortArticles(p) == IF p.sort = "manual" THEN p.ids ELSE Sorted(p.ids, rows, p.sort, ServerRank)

\* All refused articles are named at once; the chapters' order is made of the
\* rows as they are now.
FromArticles(p) ==
  LET invalid == {a \in ToSet(p.ids) : rows[a].trashed} IN
  IF invalid # {} THEN Answers("book", "refused", invalid) /\ UNCHANGED books
  ELSE /\ Answers("book", "ok", {})
       /\ books' = Append(books, [asked    |-> p.ids,
                                  chapters |-> SelectSeq(<<"title_page", "dedication", "introduction">>, LAMBDA m : m \in p.matter)
                                               \o SortArticles(p)
                                               \o SelectSeq(<<"acknowledgments", "bio">>, LAMBDA m : m \in p.matter),
                                  shown    |-> p.shown,
                                  sort     |-> p.sort,
                                  same     |-> \A a \in ToSet(p.ids) : rows[a] = p.seen[a]])

HandleFromArticles ==
  /\ cCalls["book"].stage = "sent" /\ FromArticles(BuildPayload(wiz))
  /\ UNCHANGED <<rows, authors, wiz, cSteps, cOdd>>

\* A request, or its answer, is lost.
LoseConvert(kind) ==
  /\ cCalls[kind].stage \in {"sent", "ok"} /\ cSteps < MaxConvertSteps /\ cSteps' = cSteps + 1
  /\ Answers(kind, "failed", {})
  /\ cOdd' = IF kind = "author" /\ cCalls[kind].stage = "ok" THEN cOdd \cup {"lost"} ELSE cOdd
  /\ UNCHANGED <<rows, authors, books, wiz>>

\* Another tab edits an article, or puts it into the trash.
EditedElsewhere(a) ==
  /\ cSteps < MaxConvertSteps /\ cSteps' = cSteps + 1
  /\ \E r \in Rows : rows' = [rows EXCEPT ![a] = r[a]]
  /\ rows' # rows /\ UNCHANGED <<authors, books, wiz, cCalls, cOdd>>
TrashedElsewhere(a) ==
  /\ ~rows[a].trashed /\ cSteps < MaxConvertSteps /\ cSteps' = cSteps + 1
  /\ rows' = [rows EXCEPT ![a].trashed = TRUE]
  /\ UNCHANGED <<authors, books, wiz, cCalls, cOdd>>

ConvertNext ==
  \/ \E s \in Strategies : ChangeSort(s)
  \/ \E a, over \in Arts : DragEnd(a, over)
  \/ \E tag \in Tags : SelectByTag(tag)
  \/ \E a \in Arts : RemoveOne(a) \/ EditedElsewhere(a) \/ TrashedElsewhere(a)
  \/ ResetSelection \/ StepNext \/ StepBack \/ CloseWizard
  \/ \E n \in Names : TypeAuthor(n)
  \/ ToggleRemember
  \/ \E m \in Matters : ChooseFront(m) \/ ChooseBack(m)
  \/ Submit \/ AuthorsListed \/ AuthorAnswered \/ BookAnswered
  \/ HandleAuthors \/ HandleAuthorCreate \/ HandleFromArticles
  \/ \E k \in Kinds : LoseConvert(k)

-----------------------------------------------------------------------------

\* localeCompare and casefold order two titles the same way.
SameOrder(t, u) == (BrowserRank[t] < BrowserRank[u]) = (ServerRank[t] < ServerRank[u])

\* A book's articles stand in the order the review showed, unless another tab
\* changed one, or they are sorted by title and the browser and the server
\* collate two of the titles differently.
OrderAsShown ==
  \A k \in DOMAIN books :
    LET b == books[k]
        titles == {wiz.seen[a].title : a \in ToSet(b.asked)}
        collated == b.sort \in {"title_asc", "title_desc"} => \A t, u \in titles : SameOrder(t, u)
    IN b.same /\ collated => SelectSeq(b.chapters, LAMBDA x : x \in Arts) = b.shown

\* However often the user tries, the wizard adds no second author of a name,
\* unless it could not know: the authors had not arrived when it was
\* submitted, or the answer to the first addition was lost.
AuthorAddedOnce == cOdd = {} => \A n \in Names : authors[n] <= 1
=============================================================================

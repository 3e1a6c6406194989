------------------------------ MODULE MCPages ------------------------------
(***************************************************************************)
(* Instances of the browser's pages and dialogs for TLC, one page open per *)
(* behaviour: they share no state in the browser but the rows, which each  *)
(* model has other tabs change.                                            *)
(***************************************************************************)
EXTENDS BulkFillClient, FillDialogs, ChapterTemplates

CONSTANTS
  Pages,  \* the pages of a run
  a1, a2, a3, \* articles, books or comments
  n1, n2, \* authors' ids
  Empty

VARIABLES
  at, \* the page
  article, ed, eCalls, eSent, eOdd,
  content, saves, text, pub, panel, pCalls, pSent, seen, raced,
  shelf, forGood, desk, dCalls, dSent, dOdd,
  rows, authors, books, wiz, cCalls, cSteps, cOdd,
  comments, section, mCalls, mSteps, mOdd,
  mrow, file, page, mdCalls, touched, mdSteps, mdOdd,
  review, profile, allow, pens, made, library, recorded, rSteps,
  author, used, adb, aCalls, aSent, aOff,
  conf, managed, plugin, running, form, sCalls, sSteps, sOdd

-----------------------------------------------------------------------------
(* Instances                                                               *)

Editor == INSTANCE ArticleEditor WITH
  row <- article, Texts <- {"text"}, Menus <- {"menu"}, Generated <- {"menu"},
  Pictures <- {"text"}, Topics <- {"menu"}, Values <- {"v0", "v1"}, Docs <- {"d0", "d1"},
  v0 <- "v0", d0 <- "d0", MaxEditorCalls <- 3

Published == INSTANCE Publications WITH
  Pubs <- {"p"}, Texts <- {"d0", "d1"}, t0 <- "d0", MaxPubCalls <- 4, MaxSaves <- 1

\* Both items live, one in the trash, or one there and one to come.
Shelf(x, y) == (a1 :> x @@ a2 :> y)
Desk == INSTANCE Dashboard WITH
  Items <- {a1, a2}, Filters <- {{}, {a2}},
  Shelves <- {Shelf("live", "live"), Shelf("live", "trashed"), Shelf("trashed", "none")},
  BulkMin <- 1, BulkLimit <- 2, AiLimit <- 2, MaxDeskCalls <- 2

\* Three articles; titles a and b are ordered differently by the browser and
\* the server, dates and titles have ties.
Row(date, title, name) == [date |-> date, title |-> title, author |-> name, trashed |-> FALSE]
Wizard == INSTANCE ConvertToBook WITH
  Listed <- <<a1, a2, a3>>,
  Rows <- {(a1 :> Row(2, "z", "") @@ a2 :> Row(1, "a", "new") @@ a3 :> Row(2, "z", "new")),
           (a1 :> Row(1, "a", "new") @@ a2 :> Row(1, "b", "new") @@ a3 :> Row(2, "z", "new"))},
  Tags <- {{a1, a2}, {a3}},
  BrowserRank <- ("a" :> 1 @@ "b" :> 1 @@ "z" :> 2), ServerRank <- ("a" :> 2 @@ "b" :> 1 @@ "z" :> 1),
  Ranks <- {1, 2}, Names <- {"", "new"}, Matters <- {{}, {"dedication"}, {"bio"}}, MaxConvertSteps <- 3

Admin == INSTANCE Comments WITH
  Newest <- <<a1, a2>>, States <- {Shelf("live", "live"), Shelf("trashed", "live"), Shelf("trashed", "trashed")},
  Matches <- {{a1, a2}, {a2}}, PageSize <- 1, Cap <- 2, BulkLeast <- 1, MaxCommentCalls <- 2

Metadata == INSTANCE BookMetadata WITH
  MetaFields <- {"blurb", "publisher", "cover"}, AiFields <- {"blurb"}, CopyFields <- {"publisher"},
  Cover <- "cover", Typed <- {"typed"}, Files <- {"png"}, MaxMetaSteps <- 3

Panel == INSTANCE ImportReview WITH
  Found <- {[kind |-> k, title |-> "t", author |-> IF e = "" THEN "a" ELSE "", extra |-> e] :
              k \in {"text", "one"}, e \in {"", "x"}}
             \cup {[kind |-> "several", title |-> "t", author |-> "a", extra |-> ""]},
  Titles <- {"", "t"}, People <- {"a", "b"}, Extras <- {"x"}, Profiles <- {<<>>, <<"a">>, <<"b">>},
  Archived <- {a1, a2}, Blank <- "", Skip <- None, MaxReviewSteps <- 3

Register == INSTANCE AuthorsDatabase WITH
  spent <- used, People <- {n1, n2}, Names <- {"x", "y"}, Searches <- {{"x", "y"}, {"x"}},
  Registers <- {(n1 :> "x" @@ n2 :> None)}, MaxAuthorCalls <- 2, Nobody <- None

\* All sections set and both plugins on; or topics only in the program's file,
\* one plugin off and the key in the environment.
File(own, off) == [own |-> own, key |-> "v0", on |-> {"help", "tools"} \ off, off |-> off]
Preferences == INSTANCE Settings WITH
  Sections <- {"app", "ai", "topics"}, Plugins <- {"help", "tools"}, Core <- {"help"}, Bundled <- {"help"},
  Stored <- {[managed |-> FALSE, file |-> File([s \in {"app", "ai", "topics"} |-> "v0"], {})],
             [managed |-> TRUE, file |-> File(("topics" :> None @@ "app" :> "v0" @@ "ai" :> "v0"), {"tools"})]},
  Links <- {"app", "plugins"}, Inputs <- {"v1"}, Default <- "v0", Blank <- "", MaxSettingsSteps <- 3

-----------------------------------------------------------------------------
(* One of the pages                                                        *)

inEditor   == <<article, ed, eCalls, eSent, eOdd>>
inPanel    == <<content, saves, text, pub, panel, pCalls, pSent, seen, raced>>
onDesk     == <<shelf, forGood, desk, dCalls, dSent, dOdd>>
inWizard   == <<rows, authors, books, wiz, cCalls, cSteps, cOdd>>
inSection  == <<comments, section, mCalls, mSteps, mOdd>>
inForm     == <<mrow, file, page, mdCalls, touched, mdSteps, mdOdd>>
inReview   == <<review, profile, allow, pens, made, library, recorded, rSteps>>
inRegister == <<author, used, adb, aCalls, aSent, aOff>>
inSettings == <<conf, managed, plugin, running, form, sCalls, sSteps, sOdd>>

OnDesk == at \in {"articles", "books"}

EditorOff   == article = 0 /\ ed = 0 /\ eCalls = 0 /\ eSent = 0 /\ eOdd = 0
PubOff      == /\ content = 0 /\ saves = 0 /\ text = 0 /\ pub = 0 /\ panel = 0
               /\ pCalls = 0 /\ pSent = 0 /\ seen = 0 /\ raced = 0
DeskOff     == shelf = 0 /\ forGood = 0 /\ desk = 0 /\ dCalls = 0 /\ dSent = 0 /\ dOdd = 0
ConvertOff  == /\ rows = 0 /\ authors = 0 /\ books = 0 /\ wiz = 0
               /\ cCalls = 0 /\ cSteps = 0 /\ cOdd = 0
CommentOff  == comments = 0 /\ section = 0 /\ mCalls = 0 /\ mSteps = 0 /\ mOdd = 0
MetaOff     == /\ mrow = 0 /\ file = 0 /\ page = 0 /\ mdCalls = 0
               /\ touched = 0 /\ mdSteps = 0 /\ mdOdd = 0
ReviewOff   == /\ review = 0 /\ profile = 0 /\ allow = 0 /\ pens = 0
               /\ made = 0 /\ library = 0 /\ recorded = 0 /\ rSteps = 0
AuthorOff   == author = 0 /\ used = 0 /\ adb = 0 /\ aCalls = 0 /\ aSent = 0 /\ aOff = 0
SettingsOff == /\ conf = 0 /\ managed = 0 /\ plugin = 0 /\ running = 0
               /\ form = 0 /\ sCalls = 0 /\ sSteps = 0 /\ sOdd = 0
TemplateOff == tpl = 0 /\ worn = 0 /\ pick = 0 /\ tsave = 0 /\ tCalls = 0 /\ tSent = 0 /\ tOff = 0
DialogOff   == asked = 0 /\ asks = 0 /\ jobs = 0 /\ dock = 0 /\ mishaps = 0
FillOff     == /\ row = 0 /\ body = 0 /\ field = 0 /\ spent = 0 /\ job = 0
               /\ ids = 0 /\ classes = 0 /\ force = 0 /\ pc = 0 /\ idx = 0 /\ cls = 0
               /\ loaded = 0 /\ base = 0 /\ dirty = 0 /\ got = 0 /\ updated = 0
               /\ sum = 0 /\ log = 0 /\ billed = 0 /\ call = 0 /\ edits = 0 /\ calls = 0
               /\ known = 0 /\ told = 0 /\ view = 0 /\ persisted = 0 /\ conn = 0
               /\ pos = 0 /\ drops = 0 /\ reloads = 0

\* The dock does not tell a record in the trash from one that is left out for
\* another reason, so its records stay where they are.
AllLive == \A i \in Items : row[i] = "live"

Init ==
  /\ at \in Pages
  /\ IF at = "article"      THEN Editor!EditorInit    ELSE EditorOff
  /\ IF at = "publications" THEN Published!PubInit    ELSE PubOff
  /\ IF OnDesk              THEN Desk!DeskInit        ELSE DeskOff
  /\ IF at = "wizard"       THEN Wizard!ConvertInit   ELSE ConvertOff
  /\ IF at = "comments"     THEN Admin!CommentInit    ELSE CommentOff
  /\ IF at = "metadata"     THEN Metadata!MetaInit    ELSE MetaOff
  /\ IF at = "import"       THEN Panel!ReviewInit     ELSE ReviewOff
  /\ IF at = "authors"      THEN Register!AuthorInit  ELSE AuthorOff
  /\ IF at = "settings"     THEN Preferences!SettingsInit ELSE SettingsOff
  /\ IF at = "templates"    THEN TemplateInit         ELSE TemplateOff
  /\ IF at = "dialogs"      THEN DialogInit           ELSE DialogOff
  /\ IF at = "dock"         THEN ClientInit /\ AllLive ELSE FillOff

\* The other pages stay as they are.
Alone(open) ==
  /\ at = open /\ UNCHANGED at
  /\ IF at = "article"      THEN TRUE ELSE UNCHANGED inEditor
  /\ IF at = "publications" THEN TRUE ELSE UNCHANGED inPanel
  /\ IF OnDesk              THEN TRUE ELSE UNCHANGED onDesk
  /\ IF at = "wizard"       THEN TRUE ELSE UNCHANGED inWizard
  /\ IF at = "comments"     THEN TRUE ELSE UNCHANGED inSection
  /\ IF at = "metadata"     THEN TRUE ELSE UNCHANGED inForm
  /\ IF at = "import"       THEN TRUE ELSE UNCHANGED inReview
  /\ IF at = "authors"      THEN TRUE ELSE UNCHANGED inRegister
  /\ IF at = "settings"     THEN TRUE ELSE UNCHANGED inSettings
  /\ IF at = "templates"    THEN TRUE ELSE UNCHANGED templateVars
  /\ IF at = "dialogs"      THEN TRUE ELSE UNCHANGED dialogVars
  /\ IF at = "dock"         THEN TRUE ELSE UNCHANGED allVars

Next ==
  \/ Alone("article")      /\ Editor!EditorNext
  \/ Alone("publications") /\ Published!PubNext
  \/ Alone("articles")     /\ Desk!ArticleListNext
  \/ Alone("books")        /\ Desk!DashboardNext
  \/ Alone("wizard")       /\ Wizard!ConvertNext
  \/ Alone("comments")     /\ Admin!CommentNext
  \/ Alone("metadata")     /\ Metadata!MetaNext
  \/ Alone("import")       /\ Panel!ReviewNext
  \/ Alone("authors")      /\ Register!AuthorNext
  \/ Alone("settings")     /\ Preferences!SettingsNext
  \/ Alone("templates")    /\ TemplateNext
  \/ Alone("dialogs")      /\ DialogNext
  \/ Alone("dock")         /\ ClientNext /\ AllLive'

pageVars ==
  <<at, inEditor, inPanel, onDesk, inWizard, inSection,
    inForm, inReview, inRegister, inSettings, templateVars, dialogVars, allVars>>

PagesSpec == Init /\ [][Next]_pageVars

-----------------------------------------------------------------------------
(* Properties: those of the pages, each for the page that is open          *)

\* What the pages, their dialogs and their requests may hold.
PagesTypeOK ==
  /\ at \in Pages
  /\ at = "article"      => Editor!EditorTypeOK
  /\ at = "publications" => Published!PubTypeOK
  /\ OnDesk              => Desk!DeskTypeOK
  /\ at = "wizard"       => Wizard!ConvertTypeOK
  /\ at = "comments"     => Admin!CommentTypeOK
  /\ at = "metadata"     => Metadata!MetaTypeOK
  /\ at = "import"       => Panel!ReviewTypeOK
  /\ at = "authors"      => Register!AuthorTypeOK
  /\ at = "settings"     => Preferences!SettingsTypeOK
  /\ at = "templates"    => TemplateTypeOK
  /\ at = "dialogs"      => DialogTypeOK
  /\ at = "dock"         => ClientTypeOK

\* With nothing under way, every list shows the rows the server has: articles,
\* books and the trash, comments, authors and chapter templates.
ListsShowRows ==
  /\ OnDesk           => Desk!ListsAgree
  /\ at = "comments"  => Admin!CommentsShown
  /\ at = "authors"   => Register!AuthorsShown
  /\ at = "templates" => TemplatesShown

\* The article's page: metadata and document of a quiet page are saved.  The
\* metadata form: a save does not write old values back into fields the user
\* did not change.  The settings: what is not typed is what the server has.
FormsAreTypedOrSaved ==
  /\ at = "article"  => Editor!QuietPageIsSaved
  /\ at = "metadata" => Metadata!FormIsTypedOrRow
  /\ at = "settings" => Preferences!SettingsShown

\* What is done is what the user was shown.  What the panel shows as published
\* is the article's document, and the snapshot is the document the user saw;
\* a converted book has its chapters in the order of the review, and no author
\* is added twice; what is imported is what the form showed.
DoneAsShown ==
  /\ at = "publications" => Published!PublishedIsCurrent /\ Published!SnapshotIsWhatWasSeen
  /\ at = "wizard"       => Wizard!OrderAsShown /\ Wizard!AuthorAddedOnce
  /\ at = "import"       => Panel!ImportedIsShown

\* The bulk fill: no job that runs is out of sight; the dock shows what the job
\* reported; a view that shows it as live will hear its end, also after a
\* reload; a job is shown as failed only if it is.
DockTellsTheTruth ==
  /\ at = "dialogs" => RunningIsOnTheDock
  /\ at = "dock"    => /\ ViewIsOfTheLog /\ CompletedViewIsTrue /\ FailedViewIsTrue
                       /\ LiveViewCanEnd /\ ReloadResumes

\* No step takes for good what the user did not agree to lose: a row of the
\* lists of articles and books, the live book an import puts an archived
\* copy in the place of; nor does a save of the settings write over what the
\* user did not change, or ever over an AI key that another layer owns.
LostWasAgreed ==
  [][/\ OnDesk          => Desk!LossWasAgreed
     /\ at = "import"   => Panel!ReplacementWasChosen
     /\ at = "settings" => Preferences!OthersKept]_pageVars

=============================================================================

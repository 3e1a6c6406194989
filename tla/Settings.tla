------------------------------- MODULE Settings -------------------------------
(***************************************************************************)
(* The settings page (pages/Settings.tsx), its tabs and their handlers     *)
(* (routers/settings.py).  The page holds one copy of the configuration;   *)
(* the tab that is open has a form, filled when the tab is opened and      *)
(* again whenever the page's copy is replaced.  A save sends the form with *)
(* what the tab takes from the copy, and the answer replaces the copy.     *)
(* A section's fields are one value; an AI key has a value of its own,     *)
(* since a file or the environment may own it.  Installing and creating    *)
(* plugins is left out.                                                    *)
(***************************************************************************)
EXTENDS Naturals, FiniteSets

CONSTANTS
  Sections,  \* "app", "ai" and the tabs with a list: author, topics
  Plugins,   \* the plugins with a configuration
  Core,      \* those the general tab has boxes for and no card can switch
  Bundled,   \* those whose configuration comes with the program
  Stored,    \* the user's files there may be at first, each with whether another
             \* layer owns the key
  Links,     \* tabs a link opens the page with
  Inputs,    \* what the user may type
  Default,   \* what the program's file says
  Blank,     \* what a field shows when nothing is set
  MaxSettingsSteps, \* bound on what the user, other tabs and losses do
  None

VARIABLES
  conf,    \* the user's file: section values, None if it has none; AI key; plugins on and off
  managed, \* another layer owns the AI key
  plugin,  \* the plugins' settings, None without a file
  running, \* plugins the manager has activated
  form,    \* the page and the form of its open tab
  sCalls,  \* its requests
  sSteps,  \* number of steps that count against the bound
  sOdd     \* history: why the page may be wrong

settingsVars == <<conf, managed, plugin, running, form, sCalls, sSteps, sOdd>>

Tabs == Sections \cup {"plugins"}
Values == Inputs \cup {Default, Blank}

SettingsTypeOK ==
  /\ conf.own \in [Sections -> Values \cup {None}] /\ conf.key \in Values
  /\ conf.on \subseteq Plugins /\ conf.off \subseteq Plugins /\ managed \in BOOLEAN
  /\ plugin \in [Plugins -> Values \cup {None}] /\ running \subseteq Plugins
  /\ form.tab \in Tabs /\ form.val \in Values /\ form.key \in Values /\ form.boxes \subseteq Core
  /\ form.touch \subseteq Sections \cup Plugins \cup {"key"} /\ form.saving \in BOOLEAN
  /\ \A c \in sCalls : c.st \in {"sent", "read", "ok", "failed"} /\ c.on \subseteq Plugins
  /\ sOdd \subseteq {"overlap", "elsewhere", "lost", "unloaded", "unmerged"}

-----------------------------------------------------------------------------
(* The forms                                                               *)

\* What a GET returns: the program's file under the user's, and who owns the key.
Merged == [conf EXCEPT !.own = [s \in Sections |-> IF @[s] = None THEN Default ELSE @[s]]]
Config(file, meta) == [own |-> file.own, key |-> file.key, on |-> file.on, off |-> file.off, sources |-> meta]

Nothing == Config([own |-> [s \in Sections |-> None], key |-> Blank, on |-> {}, off |-> {}], FALSE)

Active(f) == {p \in Plugins : f.plugs[p] # None /\ p \in f.cfg.on \ f.cfg.off}
Inactive(f) == {p \in f.loaded \ Active(f) : f.plugs[p] # None}

\* The open tab's form, as its effect fills it from the page's copy.
Filled(f) ==
  [f EXCEPT !.val = IF f.tab \in Sections /\ f.cfg.own[f.tab] # None THEN f.cfg.own[f.tab] ELSE Blank,
            !.key = IF f.tab = "ai" THEN f.cfg.key ELSE Blank,
            !.boxes = IF f.tab = "app" THEN f.cfg.on \cap Core ELSE {},
            !.touch = {}]

\* Mutant of Takes: the fields stay as they are.
Takes_Stale(f, cfg) == [f EXCEPT !.cfg = cfg]

\* The copy is replaced.  The cards keep what was typed, unless they close.
Takes(f, cfg) ==
  LET new == [f EXCEPT !.cfg = cfg]
      stay == Active(new)
  IN IF f.tab = "plugins"
     THEN [new EXCEPT !.cards = [p \in Plugins |-> IF p \in stay THEN @[p] ELSE f.plugs[p]],
                      !.touch = @ \cap stay]
     ELSE Filled(new)

\* Plugins' settings are replaced, and with them what their cards show.
Plugs(f, ps, new) ==
  [f EXCEPT !.plugs = [p \in Plugins |-> IF p \in ps THEN new[p] ELSE @[p]],
            !.cards = [p \in Plugins |-> IF p \in ps THEN new[p] ELSE @[p]],
            !.touch = IF f.tab = "plugins" THEN @ \ ps ELSE @]

\* A tab is mounted when it is opened.
Opened(f, tab) ==
  Filled([f EXCEPT !.tab = tab, !.cards = f.plugs, !.loaded = {}, !.adding = FALSE,
                   !.asked = None, !.testing = FALSE, !.timer = FALSE])

-----------------------------------------------------------------------------
(* Requests                                                                *)

Call(kind, no) == [kind |-> kind, no |-> no, st |-> "sent", plugin |-> None, tab |-> None, val |-> Blank,
                  key |-> None, on |-> {}, touch |-> {}, test |-> FALSE, here |-> TRUE, got |-> {},
                  file |-> Nothing, app |-> Nothing, list |-> [p \in Plugins |-> None], names |-> {}]

\* The plugin tab asks for the plugins the server has found whenever the
\* page's list of plugins is a new one.
Discovers(f, no) == IF f.tab = "plugins" THEN {Call("discover", no)} ELSE {}

SettingsInit ==
  /\ \E s \in Stored :
       conf = s.file /\ managed = s.managed /\ running = s.file.on \ s.file.off
  /\ plugin = [p \in Plugins |-> Default]
  /\ sSteps = 1 /\ sOdd = {}
  /\ \E tab \in Links :
       form = [tab |-> tab, cfg |-> Nothing, plugs |-> [p \in Plugins |-> None], loaded |-> {},
               val |-> Blank, key |-> Blank, boxes |-> {}, cards |-> [p \in Plugins |-> None], touch |-> {},
               ready |-> FALSE, saving |-> FALSE, adding |-> FALSE, asked |-> None,
               testing |-> FALSE, timer |-> FALSE]
  /\ sCalls = {Call("first", 1)} \cup Discovers(form, 0)

\* The question whether to remove a plugin covers the page.
Idle == form.asked = None

\* What is typed once no request may follow is left out.
Locally(new) ==
  /\ sSteps < MaxSettingsSteps /\ form' = new
  /\ UNCHANGED <<conf, managed, plugin, running, sCalls, sSteps, sOdd>>

\* Of a page that may be wrong little is claimed: the count ends there.
Counts ==
  /\ sSteps < MaxSettingsSteps
  /\ sSteps' = IF sOdd' \subseteq {"unmerged"} THEN sSteps + 1 ELSE MaxSettingsSteps

Asks(c, new, why) ==
  /\ Idle \/ c.kind = "remove"
  /\ sCalls' = sCalls \cup {c} /\ form' = new
  /\ sOdd' = sOdd \cup why \cup (IF \E d \in sCalls : d.kind # "discover" THEN {"overlap"} ELSE {})
  /\ Counts /\ UNCHANGED <<conf, managed, plugin, running>>

\* A request is over; those that follow from it are sent, and bear its number.
Ends(c, new, more) ==
  /\ form' = new /\ sCalls' = (sCalls \ {c}) \cup more
  /\ UNCHANGED <<conf, managed, plugin, running, sSteps>>

Over(c, kind) == c \in sCalls /\ c.kind = kind /\ c.st \in {"ok", "failed"}

-----------------------------------------------------------------------------
(* Loading and tabs                                                        *)

\* A failure of one list does not keep the other from loading.
LoadedApp(c) ==
  /\ Over(c, "first")
  /\ Ends(c, IF c.st = "ok" THEN [Takes(form, c.app) EXCEPT !.ready = TRUE] ELSE form, {Call("second", c.no)})
  /\ UNCHANGED sOdd

LoadedPlugins(c) ==
  LET new == IF c.st = "ok" THEN Plugs(form, Plugins, c.list) ELSE form
  IN /\ Over(c, "second")
     /\ Ends(c, new, IF c.st = "ok" THEN Discovers(new, c.no) ELSE {})
     /\ UNCHANGED sOdd

Discovered(c) ==
  /\ Over(c, "discover")
  /\ Ends(c, IF c.st = "ok" THEN [form EXCEPT !.loaded = c.names] ELSE form, {})
  /\ UNCHANGED sOdd

\* The tab that is left forgets what was typed, and nobody is told what it
\* asked for.
HandleTabChange(tab) ==
  LET new == Opened(form, tab)
  IN /\ Idle /\ tab # form.tab
     /\ sSteps < MaxSettingsSteps
     /\ form' = new /\ sSteps' = IF tab = "plugins" THEN sSteps + 1 ELSE sSteps
     /\ sCalls' = Discovers(new, sSteps + 1)
                   \cup {[c EXCEPT !.here = FALSE] : c \in {d \in sCalls : d.kind # "discover"}}
     /\ UNCHANGED <<conf, managed, plugin, running, sOdd>>

-----------------------------------------------------------------------------
(* The tabs with a form                                                    *)

KeyIsExternal == managed /\ form.cfg.sources

Edits(v) == v # form.val /\ Locally([form EXCEPT !.val = v, !.touch = @ \cup {form.tab}])

TypeIn(v) == Idle /\ form.tab \in {"app", "ai"} /\ Edits(v)

\* A list, of pen names or topics, gains or loses an entry.
EditList(v) == Idle /\ form.tab \in Sections \ {"app", "ai"} /\ Edits(v)

TypeKey(v) ==
  /\ Idle /\ form.tab = "ai" /\ ~KeyIsExternal /\ v # form.key
  /\ Locally([form EXCEPT !.key = v, !.touch = @ \cup {"key"}])

\* Another provider brings its address and model, and empties the key.
PickProvider(v) ==
  /\ Idle /\ form.tab = "ai" /\ v # form.val
  /\ Locally([form EXCEPT !.val = v, !.key = Blank, !.touch = @ \cup {"ai", "key"}])

TickBox(p) ==
  /\ Idle /\ form.tab = "app" /\ p \in Core
  /\ Locally([form EXCEPT !.boxes = IF p \in @ THEN @ \ {p} ELSE @ \cup {p}, !.touch = @ \cup {p}])

\* Mutant of EnabledPlugins: only the boxes are sent.
EnabledPlugins_Boxes == form.boxes

\* The boxes, and of the others those the page's copy says are on.
EnabledPlugins == form.boxes \cup (form.cfg.on \ Core)

SaveData(test) ==
  [Call("save", sSteps + 1) EXCEPT !.tab = form.tab, !.val = form.val, !.test = test, !.touch = form.touch,
                          !.on = IF form.tab = "app" THEN EnabledPlugins ELSE {},
                          !.key = IF form.tab = "ai" /\ ~KeyIsExternal THEN form.key ELSE None]

Save ==
  /\ form.tab \in Sections /\ ~form.saving
  /\ Asks(SaveData(FALSE), [form EXCEPT !.saving = TRUE], IF form.ready THEN {} ELSE {"unloaded"})

\* The test saves first, also while another save is under way.
TestConnection ==
  /\ form.tab = "ai" /\ form.val # Blank /\ ~form.testing
  /\ Asks(SaveData(TRUE), [form EXCEPT !.saving = TRUE, !.testing = TRUE], IF form.ready THEN {} ELSE {"unloaded"})

\* The answer is the user's file alone, without the program's or the key's owner.
SaveAnswered(c) ==
  /\ Over(c, "save")
  /\ Ends(c, [(IF c.st = "ok" THEN Takes(form, c.app) ELSE form) EXCEPT !.saving = FALSE],
          IF c.test THEN {[Call("test", c.no) EXCEPT !.key = c.val, !.here = c.here]} ELSE {})
  /\ sOdd' = IF c.st = "ok" /\ \E s \in Sections : c.app.own[s] = None THEN sOdd \cup {"unmerged"} ELSE sOdd

TestAnswered(c) ==
  /\ Over(c, "test")
  /\ Ends(c, IF c.here THEN [form EXCEPT !.testing = FALSE, !.timer = TRUE] ELSE form, {})
  /\ UNCHANGED sOdd

\* Three seconds later the verdict goes, even if a new test runs.
TestTimer == form.timer /\ Locally([form EXCEPT !.testing = FALSE, !.timer = FALSE])

-----------------------------------------------------------------------------
(* The plugin tab                                                          *)

OnPlugins == Idle /\ form.tab = "plugins"

ShowAdd == OnPlugins /\ Inactive(form) # {} /\ Locally([form EXCEPT !.adding = ~@])

Toggle(kind, p, new) == Asks([Call(kind, sSteps + 1) EXCEPT !.plugin = p, !.touch = {p}], new, {})

Activate(p) ==
  /\ OnPlugins /\ form.adding /\ p \in Inactive(form) /\ Toggle("enable", p, [form EXCEPT !.adding = FALSE])

SwitchOff(p) == OnPlugins /\ p \in Active(form) \ Core /\ Toggle("disable", p, form)

\* Mutant of Toggled: the page does not ask again.
Toggled_Trusts(c) == {}

\* Then the configuration is read again.
Toggled(c) == IF c.st = "ok" THEN {Call("again", c.no)} ELSE {}

ToggleAnswered(c) ==
  /\ Over(c, "enable") \/ Over(c, "disable")
  /\ Ends(c, form, Toggled(c)) /\ UNCHANGED sOdd

ReadAgain(c) ==
  /\ Over(c, "again")
  /\ Ends(c, IF c.st = "ok" THEN [Takes(form, c.app) EXCEPT !.ready = TRUE] ELSE form, {})
  /\ sOdd' = IF c.st = "ok" THEN sOdd \ {"unmerged"} ELSE sOdd

AskRemove(p) == OnPlugins /\ p \in Active(form) \ Core /\ Locally([form EXCEPT !.asked = p])
KeepPlugin == ~Idle /\ Locally([form EXCEPT !.asked = None])
RemovePlugin == ~Idle /\ Toggle("remove", form.asked, [form EXCEPT !.asked = None])

Removed(c) ==
  /\ Over(c, "remove")
  /\ Ends(c, form, IF c.st = "ok" THEN {Call("both", c.no)} ELSE {}) /\ UNCHANGED sOdd

\* Both lists are read again, and taken only if both came.
ReadBoth(c) ==
  LET new == IF c.st = "ok" THEN [Takes(Plugs(form, Plugins, c.list), c.app) EXCEPT !.ready = TRUE] ELSE form
  IN /\ Over(c, "both")
     /\ Ends(c, new, IF c.st = "ok" THEN Discovers(new, c.no) ELSE {})
     /\ sOdd' = IF c.st = "ok" THEN sOdd \ {"unmerged"} ELSE sOdd

EditCard(p, v) ==
  /\ OnPlugins /\ p \in Active(form) /\ v # form.cards[p]
  /\ Locally([form EXCEPT !.cards[p] = v, !.touch = @ \cup {p}])

SaveCard(p) ==
  /\ OnPlugins /\ p \in Active(form)
  /\ Asks([Call("card", sSteps + 1) EXCEPT !.plugin = p, !.val = form.cards[p]], form, {})

CardSaved(c) ==
  LET new == IF c.st = "ok" THEN Plugs(form, {c.plugin}, [p \in Plugins |-> c.val]) ELSE form
  IN /\ Over(c, "card")
     /\ Ends(c, new, IF c.st = "ok" THEN Discovers(new, c.no) ELSE {})
     /\ UNCHANGED sOdd

-----------------------------------------------------------------------------
(* The server: handlers run in a thread each, and read the file before     *)
(* they write it                                                           *)

Replies(c, new) == sCalls' = (sCalls \ {c}) \cup {new} /\ UNCHANGED <<managed, form, sSteps, sOdd>>

\* Mutant of StripsKey: the key is written whoever owns it.
StripsKey_Never == FALSE

StripsKey == managed

Patched(file, c) ==
  CASE c.kind = "save" ->
         [file EXCEPT !.own[c.tab] = c.val,
                      !.key = IF c.key = None \/ StripsKey THEN @ ELSE c.key,
                      !.on = IF c.tab = "app" THEN c.on ELSE @]
    [] c.kind = "enable"  -> [file EXCEPT !.on = @ \cup {c.plugin}, !.off = @ \ {c.plugin}]
    [] c.kind = "disable" -> [file EXCEPT !.on = @ \ {c.plugin}, !.off = @ \cup {c.plugin}]
    [] c.kind = "remove"  -> [file EXCEPT !.on = @ \ {c.plugin}]

\* A plugin without a configuration cannot be removed; one that has is
\* deactivated first.
HandleRead(c) ==
  LET known == c.kind # "remove" \/ plugin[c.plugin] # None
  IN /\ c.st = "sent" /\ c.kind \in {"save", "enable", "disable", "remove"}
     /\ running' = IF c.kind = "remove" /\ known THEN running \ {c.plugin} ELSE running
     /\ Replies(c, IF known THEN [c EXCEPT !.st = "read", !.file = conf] ELSE [c EXCEPT !.st = "failed"])
     /\ UNCHANGED <<conf, plugin>>

\* Removing writes the file only if the plugin was on, and leaves what came
\* with the program; switching off deactivates last.
HandleWrite(c) ==
  LET new == Patched(c.file, c)
  IN /\ c.st = "read"
     /\ conf' = IF c.kind = "remove" /\ c.plugin \notin c.file.on THEN conf ELSE new
     /\ running' = IF c.kind = "disable" THEN running \ {c.plugin} ELSE running
     /\ plugin' = IF c.kind # "remove" THEN plugin
                  ELSE [plugin EXCEPT ![c.plugin] = IF @ # None /\ c.plugin \in Bundled THEN Default ELSE None]
     /\ Replies(c, [c EXCEPT !.st = "ok", !.file = Nothing, !.touch = {}, !.app = Config(new, FALSE)])

\* update_plugin_settings: the card sends all settings of the plugin.
HandleCard(c) ==
  /\ c.st = "sent" /\ c.kind = "card"
  /\ plugin' = IF plugin[c.plugin] = None THEN plugin ELSE [plugin EXCEPT ![c.plugin] = c.val]
  /\ Replies(c, [c EXCEPT !.st = IF plugin[c.plugin] = None THEN "failed" ELSE "ok"])
  /\ UNCHANGED <<conf, running>>

Wants(c) == CASE c.kind \in {"first", "again"} -> {"app"} [] c.kind = "second" -> {"list"}
              [] c.kind = "both" -> {"app", "list"} [] OTHER -> {}

HandleGet(c, what) ==
  LET got == c.got \cup {what}
  IN /\ c.st = "sent" /\ what \in Wants(c) \ c.got
     /\ Replies(c, [c EXCEPT !.got = got, !.st = IF got = Wants(c) THEN "ok" ELSE @,
                             !.app = IF what = "app" THEN Config(Merged, TRUE) ELSE @,
                             !.list = IF what = "list" THEN plugin ELSE @])
     /\ UNCHANGED <<conf, plugin, running>>

HandleDiscover(c) ==
  /\ c.st = "sent" /\ c.kind = "discover"
  /\ Replies(c, [c EXCEPT !.st = "ok", !.names = {p \in running : plugin[p] # None}])
  /\ UNCHANGED <<conf, plugin, running>>

\* The AI client is made from the configuration of that moment.
HandleTest(c) ==
  /\ c.st = "sent" /\ c.kind = "test"
  /\ Replies(c, [c EXCEPT !.st = "ok", !.val = Merged.own["ai"]])
  /\ UNCHANGED <<conf, plugin, running>>

Reads == {"first", "second", "again", "both", "discover"}

LoseSetting(c) ==
  /\ c.st \in {"sent", "ok"}
  /\ sCalls' = (sCalls \ {c}) \cup {[c EXCEPT !.st = "failed"]}
  /\ sOdd' = IF c.st = "ok" \/ c.kind \in Reads \/ c.test THEN sOdd \cup {"lost"} ELSE sOdd
  /\ Counts /\ UNCHANGED <<conf, managed, plugin, running, form>>

\* Another tab, the article editor or the import wizard.
Elsewhere(new) ==
  /\ new # conf /\ conf' = new /\ sOdd' = sOdd \cup {"elsewhere"}
  /\ Counts /\ UNCHANGED <<managed, plugin, running, form, sCalls>>

SettingsNext ==
  \/ \E tab \in Tabs : HandleTabChange(tab)
  \/ \E v \in Inputs : TypeIn(v) \/ EditList(v) \/ TypeKey(v) \/ PickProvider(v)
  \/ Save \/ TestConnection \/ TestTimer \/ ShowAdd \/ KeepPlugin \/ RemovePlugin
  \/ \E p \in Plugins : \/ TickBox(p) \/ Activate(p) \/ SwitchOff(p) \/ AskRemove(p) \/ SaveCard(p)
                        \/ \E v \in Inputs : EditCard(p, v)
                        \/ Elsewhere([conf EXCEPT !.on = @ \ {p}, !.off = @ \cup {p}])
  \/ \E s \in Sections, v \in Inputs : Elsewhere([conf EXCEPT !.own[s] = v])
  \/ \E c \in sCalls :
       \/ LoadedApp(c) \/ LoadedPlugins(c) \/ Discovered(c) \/ SaveAnswered(c) \/ TestAnswered(c)
       \/ ToggleAnswered(c) \/ ReadAgain(c) \/ Removed(c) \/ ReadBoth(c) \/ CardSaved(c)
       \/ HandleRead(c) \/ HandleWrite(c) \/ HandleCard(c) \/ HandleDiscover(c) \/ HandleTest(c)
       \/ \E what \in {"app", "list"} : HandleGet(c, what)
       \/ LoseSetting(c)

-----------------------------------------------------------------------------

\* A page with nothing under way shows what the server has, but for what the
\* user has typed since, and a connection test is of the settings it has just
\* saved; unless requests overlapped, another tab changed the settings, an
\* answer was lost, a tab was saved before the settings were loaded, or a
\* save was answered with a file that lacks a section.
SettingsShown ==
  sOdd = {} =>
    /\ sCalls = {} =>
         /\ form.cfg.own = Merged.own /\ form.cfg.on = conf.on /\ form.cfg.off = conf.off
         /\ form.tab \in Sections \ form.touch => form.val = Merged.own[form.tab]
         /\ form.tab = "ai" /\ "key" \notin form.touch => form.key = conf.key
         /\ form.tab = "app" => form.boxes \ form.touch = (conf.on \cap Core) \ form.touch
         /\ form.plugs = plugin
         /\ form.tab = "plugins" => \A p \in Active(form) \ form.touch : form.cards[p] = plugin[p]
    /\ \A c \in sCalls : c.kind = "test" /\ c.st = "ok" => c.val = c.key

\* A step of the server changes a section, the key or what is on only if the
\* user changed just that on the page, with the exceptions above; a key that
\* another layer owns is never written, whatever the page takes it for.
OthersKept ==
  /\ managed => conf'.key = conf.key
  /\ sOdd = {} /\ sOdd' = {} /\ conf' # conf =>
       \E c \in sCalls :
         /\ \A s \in Sections : conf'.own[s] # conf.own[s] /\ conf.own[s] # None => s \in c.touch
         /\ conf'.key # conf.key => "key" \in c.touch
         /\ \A p \in Plugins : (p \in conf.on) # (p \in conf'.on) => p \in c.touch
=============================================================================

------------------------------ MODULE Settings ------------------------------
(***************************************************************************)
(* Settings and the file they are kept in: internal/config/config.go, with  *)
(* the two ways in, applyOverrides of the HTTP bridge (several requests at  *)
(* once) and the dialogs of the terminal window (one after another).        *)
(*                                                                         *)
(* Two models stand for all: "own" belongs to a provider P configured in    *)
(* the file and preferred by default, "other" to a provider known from the  *)
(* environment, if its key is there.  A settings file in the project itself  *)
(* (mergeLocalConfig), which hides what the shared one says, is left out.    *)
(***************************************************************************)
EXTENDS Naturals, FiniteSetsExt

CONSTANTS
    ConfigWriters,   \* requests or dialogs that may be at work at one time
    ConfigKeys, Urls, Themes,
    SettingTexts,    \* what a key, a URL or the name of a theme may be
    Unset,           \* a setting that is not there
    ConfigFiles,     \* what the file may hold at first
    MaxRequests,     \* bound: requests in all
    ConfigMaxStarts  \* bound: processes started, one after another

Absent == [kind |-> "absent"]
Empty == [kind |-> "empty"]  \* truncated and not written yet
Torn == [kind |-> "torn"]    \* garbled by two writers
NoText == ""

\* The file: the coder's model, provider P (Unset, or its key and base URL; no text
\* is no key, or no URL of its own), and the theme.
FileHolds(m, e, t) == [kind |-> "json", model |-> m, entry |-> e, theme |-> t]
Blank == FileHolds(Unset, Unset, Unset)
Entry(k, u) == [key |-> k, url |-> u]

Models == {"own", "other"}
Entries == [key : SettingTexts, url : SettingTexts]
Contents == [kind : {"json"}, model : Models \cup {Unset}, entry : Entries \cup {Unset},
             theme : SettingTexts \cup {Unset}]

\* Keys, URLs, theme names and the empty text are texts; a provider's entry is not
\* Unset; a file that is there at first can be read.
ASSUME SettingsAssumption ==
    /\ ConfigKeys \cup Urls \cup Themes \cup {NoText} \subseteq SettingTexts
    /\ Unset \notin Entries
    /\ ConfigFiles \subseteq Contents \cup {Absent}
    /\ MaxRequests \in Nat /\ ConfigMaxStarts \in Nat

VARIABLES
    file,
    front,        \* "bridge", "terminal" or "none": the process that runs
    configFile,   \* viper.ConfigFileUsed: did a file exist when it was loaded
    cfg,          \* the process's copy: [loaded, model, entry, off, theme]
    env,          \* is there a key for "other" in the environment
    configClient, \* the model of the agent's provider
    work,         \* writer -> the update it is in
    requests, configStarts,
    kept,         \* history: setting -> the value last answered with success
    doubt         \* history: settings such a value may have been lost of

memory == <<configFile, cfg, configClient>>
acknowledged == <<kept, doubt>>
configVars == <<file, front, memory, env, work, requests, configStarts, acknowledged>>

Settable == {"model", "key", "url", "theme"}
WriterIdle == [at |-> "idle"]
Unloaded == [loaded |-> FALSE, model |-> Unset, entry |-> Unset, off |-> FALSE, theme |-> Unset]

ConfigInit ==
    /\ file \in ConfigFiles
    /\ front = "none" /\ configFile = FALSE /\ cfg = Unloaded /\ configClient = Unset
    /\ env \in BOOLEAN
    /\ work = [w \in ConfigWriters |-> WriterIdle]
    /\ requests = 0 /\ configStarts = 0
    /\ kept = [s \in Settable |-> Unset] /\ doubt = {}

-----------------------------------------------------------------------------
(* Loading.                                                                  *)

HasKey(e) == e # Unset /\ e.key # NoText

\* setProviderDefaults: the first provider with a key
Default(e) == IF HasKey(e) THEN "own" ELSE IF env THEN "other" ELSE Unset

\* validateAgent reverts to setDefaultModelForAgent, which asks the environment only.
Validated(m, e, off) ==
    CASE m = "own" /\ HasKey(e) /\ ~off -> m
      [] m = "other" /\ env -> m
      [] env -> "other"
      [] OTHER -> "error"

\* createAgentProvider
Creates(m, e, off) == (m = "own" /\ e # Unset /\ ~off) \/ (m = "other" /\ env)

Loaded(f) ==
    LET wanted == IF f.model = Unset THEN Default(f.entry) ELSE f.model
        valid == IF wanted = Unset THEN Unset ELSE Validated(wanted, f.entry, FALSE)
    IN [loaded |-> TRUE,
        model |-> IF valid = "error" THEN wanted ELSE valid,
        entry |-> f.entry,
        off |-> valid # "error" /\ f.entry # Unset /\ ~HasKey(f.entry),
        theme |-> f.theme]

LoadFails(f) ==
    f.kind # "json" \/ (f.model # Unset /\ Validated(f.model, f.entry, FALSE) = "error")

NewClient(c) == IF Creates(c.model, c.entry, c.off) THEN c.model ELSE Unset

\* config.Load and app.New.  The terminal gives up on an error of either, the
\* bridge starts in setup mode with whatever the configuration is by then.
Start(how) ==
    /\ front = "none" /\ configStarts < ConfigMaxStarts
    /\ configStarts' = configStarts + 1
    /\ front' = how
    /\ configFile' = (file.kind # "absent")
    /\ cfg' = CASE file.kind = "json" -> Loaded(file)
                [] file.kind = "absent" -> Loaded(Blank)
                [] OTHER -> Unloaded
    /\ configClient' = NewClient(cfg')
    /\ how = "terminal" =>
          ~LoadFails(IF file = Absent THEN Blank ELSE file) /\ configClient' # Unset
    /\ UNCHANGED <<file, env, work, requests, acknowledged>>

-----------------------------------------------------------------------------
(* An update: the process's copy first, then updateCfgFile reads the file,   *)
(* changes one setting in it and writes it back.                             *)

At(w, where) == work[w].at = where
Becomes(w, change) == work' = [work EXCEPT ![w] = change]

\* UpdateProviderAPIKey, UpdateProviderBaseURL, UpdateAgentModel, UpdateTheme: does
\* the update fail before it comes to the file, and what does it do to the copy
Rejected(s, v) ==
    CASE s \in {"key", "url"} -> cfg.entry = Unset
      [] s = "model" -> Validated(v, cfg.entry, cfg.off) = "error"
      [] s = "theme" -> FALSE

Changed(s, v) ==
    CASE s = "key" -> [cfg EXCEPT !.entry.key = v, !.off = FALSE]
      [] s = "url" -> [cfg EXCEPT !.entry.url = v]
      [] s = "model" -> [cfg EXCEPT !.model = Validated(v, cfg.entry, cfg.off)]
      [] s = "theme" -> [cfg EXCEPT !.theme = v]

\* the function each of them hands to updateCfgFile
Existing(f) == IF f.entry = Unset THEN Entry(NoText, NoText) ELSE f.entry

\* A plausible bug: the provider's entry is made anew.
PutAnew(f, s, v) ==
    CASE s = "key" -> [f EXCEPT !.entry = Entry(v, NoText)]
      [] s = "url" -> [f EXCEPT !.entry = [Existing(f) EXCEPT !.url = v]]
      [] s = "model" -> [f EXCEPT !.model = v]
      [] s = "theme" -> [f EXCEPT !.theme = v]

Put(f, s, v) ==
    CASE s = "key" -> [f EXCEPT !.entry = [Existing(f) EXCEPT !.key = v]]
      [] s = "url" -> [f EXCEPT !.entry = [Existing(f) EXCEPT !.url = v]]
      [] s = "model" -> [f EXCEPT !.model = v]
      [] s = "theme" -> [f EXCEPT !.theme = v]

Value(f, s) ==
    CASE s = "model" -> f.model
      [] s = "theme" -> f.theme
      [] s = "key" -> IF f.entry = Unset THEN Unset ELSE f.entry.key
      [] s = "url" -> IF f.entry = Unset THEN Unset ELSE f.entry.url

\* A chat request carries a key, a model and a base URL, or some of them; a dialog
\* of the terminal sets a model (agent.Update) or a theme.
Order == <<"key", "model", "url", "theme">>
Wishes == [key : ConfigKeys \cup {Unset}, model : {"own", "other", Unset},
           url : Urls \cup {Unset}, theme : {Unset}]
Dialogs == [key : {Unset}, model : {"own", "other"}, url : {Unset}, theme : {Unset}]
           \cup [key : {Unset}, model : {Unset}, url : {Unset}, theme : Themes]

\* The next setting the request names, from the k-th on, or none.
Doing(wish, k) ==
    LET named == {j \in k..4 : wish[Order[j]] # Unset} IN
    [at |-> "next", wish |-> wish, k |-> Min(named \cup {5})]

BeginUpdate(w, wish) ==
    /\ At(w, "idle")
    /\ requests < MaxRequests
    /\ requests' = requests + 1
    /\ Becomes(w, Doing(wish, 1))
    /\ UNCHANGED <<file, front, memory, env, configStarts, acknowledged>>

UpdateRequest(w) ==
    \/ front = "bridge" /\ \E wish \in Wishes : BeginUpdate(w, wish)
    \/ /\ front = "terminal" /\ \A v \in ConfigWriters : At(v, "idle")
       /\ \E wish \in Dialogs : BeginUpdate(w, wish)

Setting(w) == Order[work[w].k]
Wish(w) == work[w].wish[Setting(w)]
GoOn(w) == Becomes(w, Doing(work[w].wish, work[w].k + 1))

\* An update fails: only a key that cannot be stored is passed over.
Fails(w) == IF Setting(w) = "key" THEN GoOn(w) ELSE Becomes(w, WriterIdle)

Change(w) ==
    /\ At(w, "next") /\ work[w].k <= 4
    /\ Setting(w) = "model" => cfg.loaded
    /\ IF Rejected(Setting(w), Wish(w)) THEN Fails(w) /\ UNCHANGED cfg
       ELSE cfg' = Changed(Setting(w), Wish(w)) /\ Becomes(w, [work[w] EXCEPT !.at = "read"])
    /\ UNCHANGED <<file, front, configFile, configClient, env, requests, configStarts,
                   acknowledged>>

\* cfg.Agents is nil after a Load that could not read its file: UpdateAgentModel
\* panics, and net/http ends the request.
Panics(w) ==
    /\ At(w, "next") /\ work[w].k <= 4
    /\ Setting(w) = "model" /\ ~cfg.loaded
    /\ Becomes(w, WriterIdle)
    /\ UNCHANGED <<file, front, memory, env, requests, configStarts, acknowledged>>

\* With no file at the time of Load, every update starts from `{}`.
Read(w) ==
    /\ At(w, "read")
    /\ IF configFile /\ file.kind # "json" THEN Fails(w)
       ELSE Becomes(w, [at |-> "truncate", wish |-> work[w].wish, k |-> work[w].k,
                        copy |-> IF configFile THEN file ELSE Blank,
                        missed |-> IF configFile THEN {}
                                   ELSE {s \in Settable : kept[s] # Unset}])
    /\ UNCHANGED <<file, front, memory, env, requests, configStarts, acknowledged>>

Truncate(w) ==
    /\ At(w, "truncate")
    /\ file' = Empty
    /\ Becomes(w, [work[w] EXCEPT !.at = "write"])
    /\ UNCHANGED <<front, memory, env, requests, configStarts, acknowledged>>

\* The write of one may land on top of the write of another, and leave the longer
\* one's tail.
Write(w) ==
    /\ At(w, "write")
    /\ LET new == Put(work[w].copy, Setting(w), Wish(w)) IN
       file' \in {new} \cup IF file = Empty THEN {} ELSE {Torn}
    /\ work' = [v \in ConfigWriters |->
          IF v = w THEN Doing(work[w].wish, work[w].k + 1)
          ELSE IF work[v].at \in {"truncate", "write"}
               THEN [work[v] EXCEPT !.missed = @ \cup {Setting(w)}] ELSE work[v]]
    /\ kept' = [kept EXCEPT ![Setting(w)] = Wish(w)]
    /\ doubt' = (doubt \cup work[w].missed) \ {Setting(w)}
    /\ UNCHANGED <<front, memory, env, requests, configStarts>>

-----------------------------------------------------------------------------
(* What follows the updates.                                                 *)

Done(w) == At(w, "next") /\ work[w].k = 5

\* handleChat: bootCore, if there is no agent yet, and the turn.  An agent that is
\* there keeps its provider.
RunTurn(w) ==
    /\ front = "bridge" /\ Done(w)
    /\ configClient' = IF configClient = Unset THEN NewClient(cfg) ELSE configClient
    /\ Becomes(w, WriterIdle)
    /\ UNCHANGED <<file, front, configFile, cfg, env, requests, configStarts, kept, doubt>>

\* agent.Update makes a new provider; when that fails the old one stays.
MakeClient(w) ==
    /\ front = "terminal" /\ Done(w)
    /\ configClient' = IF work[w].wish.model # Unset /\ NewClient(cfg) # Unset
                 THEN NewClient(cfg) ELSE configClient
    /\ Becomes(w, WriterIdle)
    /\ UNCHANGED <<file, front, configFile, cfg, env, requests, configStarts, acknowledged>>

\* The process is left or killed; what it was writing stays as it is.
Exit ==
    /\ front # "none"
    /\ front' = "none" /\ cfg' = Unloaded /\ configClient' = Unset /\ configFile' = FALSE
    /\ work' = [w \in ConfigWriters |-> WriterIdle]
    /\ UNCHANGED <<file, env, requests, configStarts, acknowledged>>

WriterStep(w) ==
    \/ UpdateRequest(w) \/ Change(w) \/ Panics(w)
    \/ Read(w) \/ Truncate(w) \/ Write(w)
    \/ RunTurn(w) \/ MakeClient(w)

ConfigNext ==
    \/ \E how \in {"bridge", "terminal"} : Start(how)
    \/ \E w \in ConfigWriters : WriterStep(w)
    \/ Exit

ConfigSpec == ConfigInit /\ [][ConfigNext]_configVars

-----------------------------------------------------------------------------
Wished == [key : SettingTexts \cup {Unset}, model : Models \cup {Unset},
           url : SettingTexts \cup {Unset}, theme : SettingTexts \cup {Unset}]
Copies == [loaded : BOOLEAN, model : Models \cup {Unset}, entry : Entries \cup {Unset},
           off : BOOLEAN, theme : SettingTexts \cup {Unset}]
Updates == {WriterIdle}
           \cup [at : {"next"}, wish : Wished, k : 1..5]
           \cup [at : {"read"}, wish : Wished, k : 1..4]
           \cup [at : {"truncate", "write"}, wish : Wished, k : 1..4, copy : Contents,
                 missed : SUBSET Settable]

(* Every variable has its type. *)
SettingsTypeOK ==
    /\ file \in Contents \cup {Absent, Empty, Torn}
    /\ front \in {"bridge", "terminal", "none"} /\ configFile \in BOOLEAN /\ env \in BOOLEAN
    /\ cfg \in Copies /\ configClient \in Models \cup {Unset}
    /\ work \in [ConfigWriters -> Updates]
    /\ requests \in 0..MaxRequests /\ configStarts \in 0..ConfigMaxStarts
    /\ kept \in [Settable -> SettingTexts \cup Models \cup {Unset}] /\ doubt \subseteq Settable

-----------------------------------------------------------------------------
(* A setting answered with success is in the file, next to all others that
   were, through restarts and kills.  What may be lost is what another update
   wrote between a reading and the writing after it, everything when there was
   no file as the process began, and the file itself while it is rewritten. *)
AcknowledgedIsKept ==
    file.kind = "json" =>
        \A s \in Settable \ doubt : kept[s] # Unset => Value(file, s) = kept[s]
=============================================================================

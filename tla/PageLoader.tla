----------------------------- MODULE PageLoader -----------------------------
(***************************************************************************)
(* How the pages of gtk-project-bsp get their resources.  A page is either *)
(* public/index.html, whose script tags the parser takes one by one        *)
(* ("tags"), or one that runs static/config/init.js after the site's       *)
(* configuration ("init"): init.js hides the page, adds the style sheets   *)
(* one after the other, shows the page after the last, and, when the       *)
(* document has been parsed, adds the scripts one after the other.         *)
(***************************************************************************)
EXTENDS Naturals, Sequences

CONSTANTS
    NoScript,    \* no script is being loaded
    Pages,       \* a subset of {"init", "tags"}
    Css,         \* how many style sheets init.js adds
    InitScripts, \* the scripts of init.js in their order
    TagScripts,  \* those of index.html in theirs
    Needs,       \* for every script, those that have to have run before it
    App,         \* the script that starts the application
    Faults       \* a subset of {"config", "style", "script"}: what may fail to load

Scripts == {InitScripts[n] : n \in DOMAIN InitScripts} \cup {TagScripts[n] : n \in DOMAIN TagScripts}

ASSUME PageAssumption ==
    /\ Pages \subseteq {"init", "tags"} /\ Css \in Nat
    /\ InitScripts \in Seq(Scripts) /\ TagScripts \in Seq(Scripts)
    /\ Needs \in [Scripts -> SUBSET Scripts]
    /\ NoScript \notin Scripts
    /\ Faults \subseteq {"config", "style", "script"}

VARIABLES
    page,      \* the page that was opened
    config,    \* window.SITE_CONFIG: "missing" until its script has run, then "set"
    ready,     \* document.readyState
    handler,   \* init.js has set document.onreadystatechange
    opacity,   \* of the html element
    styled,    \* style sheets loaded: i of createStyles
    link,      \* the last one added is being loaded
    next,      \* index of the script to add or reached by the parser: i of createScripts
    loading,   \* the script being loaded, or NoScript
    ran,       \* scripts that ran to their end
    threw,     \* scripts that threw, for want of what they need
    boots,     \* how many times the application was started
    failed     \* what failed to load

pageVars == <<page, config, ready, handler, opacity, styled, link, next, loading, ran, threw,
              boots, failed>>

List == IF page = "init" THEN InitScripts ELSE TagScripts

PageInit ==
    /\ page \in Pages
    /\ config = "unknown"
    /\ ready = "loading"
    /\ handler = FALSE
    /\ opacity = 1
    /\ styled = 0
    /\ link = FALSE
    /\ next = 1
    /\ loading = NoScript
    /\ ran = {} /\ threw = {}
    /\ boots = 0
    /\ failed = {}

-----------------------------------------------------------------------------
(* The configuration and init.js                                           *)

\* createScripts with i = n; in index.html, the parser reaches the n-th tag.
Adds(n) ==
    /\ next' = n
    /\ loading' = IF n > Len(List) THEN NoScript ELSE List[n]

\* index.js, index-prod.js, index-qa.js or index-uat.js; the parser waits for it.
LoadConfig ==
    /\ config = "unknown"
    /\ \/ config' = "set" /\ UNCHANGED failed
       \/ "config" \in Faults /\ config' = "missing" /\ failed' = failed \cup {"config"}
    /\ IF page = "tags" THEN Adds(1) ELSE UNCHANGED <<next, loading>>
    /\ UNCHANGED <<page, ready, handler, opacity, styled, link, ran, threw, boots>>

\* (Operators named Bad... are faulty forms of the one after them; no
\* specification uses them.  They are there to see the properties fail.)
BadShown(n) == opacity' = 0 /\ link' = (n < Css)

\* createStyles with i = n.
Shown(n) ==
    IF n >= Css THEN opacity' = 1 /\ link' = FALSE ELSE opacity' = 0 /\ link' = TRUE

\* init.js, while the document is parsed; without SITE_CONFIG it throws at once.
RunInit ==
    /\ page = "init" /\ config = "set" /\ ready = "loading" /\ ~handler
    /\ Shown(0)
    /\ handler' = TRUE
    /\ UNCHANGED <<page, config, ready, styled, next, loading, ran, threw, boots, failed>>

StyleLoads ==
    /\ link
    /\ styled' = styled + 1
    /\ Shown(styled')
    /\ UNCHANGED <<page, config, ready, handler, next, loading, ran, threw, boots, failed>>

\* The link has no onerror.
StyleFails ==
    /\ link /\ "style" \in Faults
    /\ link' = FALSE
    /\ failed' = failed \cup {"style"}
    /\ UNCHANGED <<page, config, ready, handler, opacity, styled, next, loading, ran, threw, boots>>

-----------------------------------------------------------------------------
(* Scripts                                                                 *)

BadStates == {"interactive", "complete"}

NeverStates == {"loading"}

\* The state of the document in which init.js adds scripts.
States == {"interactive"}

\* The document is parsed when index.html has no more tags, or init.js has run.
Parsed == IF page = "tags" THEN next > Len(List) ELSE handler \/ config = "missing"

\* readyState changes: to "interactive" when the document is parsed, to "complete"
\* when nothing is being loaded any more.
ReadyStateChange(state) ==
    /\ \/ /\ ready = "loading" /\ state = "interactive"
          /\ config # "unknown" /\ Parsed
       \/ /\ ready = "interactive" /\ state = "complete"
          /\ loading = NoScript /\ ~link
    /\ ready' = state
    /\ IF handler /\ state \in States THEN Adds(1) ELSE UNCHANGED <<next, loading>>
    /\ UNCHANGED <<page, config, handler, opacity, styled, link, ran, threw, boots, failed>>

\* What the scripts need is theirs and, for the application, SITE_CONFIG.
Satisfied(s) == Needs[s] \subseteq ran /\ (s = App => config = "set")

BadAfterLoad(n) == n + 2

AfterLoad(n) == n + 1

\* The script in flight arrives and runs; its onload, or the parser, goes on whether
\* it threw or not.
ScriptLoads ==
    /\ loading # NoScript
    /\ LET s == loading IN
       /\ ran' = IF Satisfied(s) THEN ran \cup {s} ELSE ran
       /\ threw' = IF Satisfied(s) THEN threw ELSE threw \cup {s}
       /\ boots' = IF s = App /\ Satisfied(s) THEN boots + 1 ELSE boots
    /\ Adds(AfterLoad(next))
    /\ UNCHANGED <<page, config, ready, handler, opacity, styled, link, failed>>

\* A script that fails has no onload: init.js adds no more.  The parser goes on.
ScriptFails ==
    /\ loading # NoScript /\ "script" \in Faults
    /\ failed' = failed \cup {"script"}
    /\ IF page = "init" THEN loading' = NoScript /\ UNCHANGED next ELSE Adds(next + 1)
    /\ UNCHANGED <<page, config, ready, handler, opacity, styled, link, ran, threw, boots>>

PageNext ==
    \/ LoadConfig \/ RunInit
    \/ StyleLoads \/ StyleFails
    \/ \E state \in {"interactive", "complete"} : ReadyStateChange(state)
    \/ ScriptLoads \/ ScriptFails

PageSpec == PageInit /\ [][PageNext]_pageVars

\* Everything that is requested arrives or fails, and the parser goes on.
PageFairness == WF_pageVars(PageNext)

-----------------------------------------------------------------------------
\* What the lists are like: a script comes after those it needs, the application once.
InOrder(list) ==
    \A n \in 1..Len(list) : Needs[list[n]] \subseteq {list[k] : k \in 1..(n - 1)}

Once(list) == \A m, n \in 1..Len(list) : list[m] = App /\ list[n] = App => m = n

PageTypeOK ==
    /\ page \in Pages
    /\ config \in {"unknown", "set", "missing"}
    /\ ready \in {"loading", "interactive", "complete"}
    /\ handler \in BOOLEAN /\ link \in BOOLEAN
    /\ opacity \in {0, 1}
    /\ styled \in 0..Css
    /\ next \in Nat \ {0}
    /\ loading \in Scripts \cup {NoScript}
    /\ ran \subseteq Scripts /\ threw \subseteq Scripts
    /\ boots \in Nat
    /\ failed \subseteq {"config", "style", "script"}

\* "插件, 放置业务之前加载, 以免业务需求依赖插件时, 还未加载出错" (init.js:11): with init.js
\* no script runs before those it needs, whatever fails to load.  With the tags of
\* index.html only a script or a configuration that failed makes another one throw.
InOrderOfNeed == threw # {} => page = "tags" /\ failed \cap {"config", "script"} # {}

\* The page of init.js is not shown between the hiding and the last style sheet, and
\* no script of it is added by a second onreadystatechange: the application starts at
\* most once.
HiddenUntilStyled == handler /\ opacity = 1 => styled = Css

StartedOnce == boots <= 1

\* Nothing is being loaded and the document has come to its end.
AtRest == ready = "complete" /\ loading = NoScript /\ ~link

\* A page that has come to its end has started the application unless its configuration
\* or a script failed, and is visible unless the configuration or a style sheet did.
RestsStarted ==
    AtRest => /\ boots = 1 \/ failed \cap {"config", "script"} # {}
              /\ opacity = 1 \/ failed \cap {"config", "style"} # {}

\* Until then something is on its way: the configuration, init.js, a style sheet, a
\* script, or the next state of the document.
PageGoesOn ==
    \/ AtRest
    \/ config = "unknown" \/ link \/ loading # NoScript
    \/ page = "init" /\ config = "set" /\ ready = "loading" /\ ~handler
    \/ ready = "loading" /\ Parsed
    \/ ready = "interactive" /\ loading = NoScript /\ ~link

\* A style sheet that fails does not keep the application from starting.
Starts == <>(boots = 1 \/ failed \cap {"config", "script"} # {})

\* Nor a script that fails the page from being shown.
Appears == <>[](opacity = 1 \/ failed \cap {"config", "style"} # {})
=============================================================================

----------------------------- MODULE MCFrontEnd -----------------------------
(* FrontEnd for TLC: the scripts of both pages, main.vue and the sub-menu  *)
(* of its sidebar, which share a chunk, and a menu whose page the bundle   *)
(* does not have.                                                          *)
EXTENDS FrontEnd, TLC

TheTagScripts == <<"manifest", "vendor", "app">>

TheInitScripts == <<"echarts", "ueditor.config", "ueditor.all", "zh-cn">> \o TheTagScripts

\* vendor and app call the webpackJsonp that manifest defines, app requires modules of
\* vendor; ueditor.all and its language come after their configuration.
TheNeeds ==
    [s \in {TheInitScripts[n] : n \in DOMAIN TheInitScripts} |->
        CASE s \in {"echarts", "ueditor.config", "manifest"} -> {}
          [] s = "ueditor.all" -> {"ueditor.config"}
          [] s = "zh-cn" -> {"ueditor.config", "ueditor.all"}
          [] s = "vendor" -> {"manifest"}
          [] s = "app" -> {"manifest", "vendor"}]

TheChunksOf == "main" :> {0, 1} @@ "submenu" :> {0} @@ "unknown" :> {}

\* The theorems about the order of scripts assume this of the lists.
ASSUME ListsAsAssumed ==
    \A list \in {InitScripts, TagScripts} :
        InOrder(list) /\ Once(list) /\ \E n \in 1..Len(list) : list[n] = App
=============================================================================

------------------------------ MODULE MCHttpd ------------------------------
(***************************************************************************)
(* Instances of Httpd: one connection of several clients in turn, or two   *)
(* at a time, and small sites.                                             *)
(***************************************************************************)
EXTENDS Httpd, TLC

Page == [kind |-> "pht", pieces |-> <<"text", "tag", "text", "tag">>]
Form == [kind |-> "pht", pieces |-> <<"text", "tag">>]
Ajax == [kind |-> "pht", pieces |-> <<"tag">>]
Script == [kind |-> "lua", pieces |-> <<"text">>]
Missing == [kind |-> "plain", pieces |-> <<"text">>]

\* The site of test/webserver-fs: a form, a page and the script it calls, and 404.html.
AjaxSite == [index |-> Form, ajax |-> Ajax, script |-> Script, missing |-> Missing]

\* A page with two tags, a script, and 404.html.
SmallSite == [index |-> Page, script |-> Script, missing |-> Missing]

Symmetry == Permutations(LuaStates)
AllSymmetry == Permutations(LuaStates) \cup Permutations(Clients) \cup Permutations(Conns)
=============================================================================

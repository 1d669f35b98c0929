--------------------------- MODULE MCProcessNames ---------------------------
EXTENDS ProcessNames

\* desktop files of two programs, one with a window per parameter
File(exec, icon) ==
  [exec |-> exec, local |-> "", plain |-> "plain", generic |-> "", comment |-> "text", icon |-> icon]
CalFiles == {File(<<"/cal">>, "cal"), File(<<"cal", "%U">>, "/cal.png"),
             File(<<"/cal", "--new">>, "lost")}
OtherFiles == {File(<<"">>, "sh"), File(<<"/cal", "--new", "%U">>, "/lost.png"),
               [File(<<"ed", "%F">>, "/cal.png") EXCEPT !.local = "Ed"]}

Table == {[auto |-> a, apps |-> b, local |-> 1 :> File(<<"start", "app">>, "/app.png")] :
            a \in {<<>>} \cup [{2} -> CalFiles],
            b \in {1 :> f @@ 3 :> g : f \in OtherFiles \cup CalFiles, g \in CalFiles}
                  \cup [{2} -> OtherFiles]}

Program(cmd, argv, line) == [cmd |-> cmd, argv |-> argv, line |-> line]
AllPrograms ==
  {Program("cal", <<<<"/cal">>>>, "/cal"),
   Program("cal", <<<<"py">>, <<"/cal">>>>, "py/cal"),
   Program("cal", <<<<"/cal", "--new">>>>, "/cal--new"),
   Program("sh", <<<<"/sh">>, <<"/cal">>>>, "/sh/cal"),
   Program("edit", <<<<"edit">>>>, "edit"),
   Program("app", <<<<"/run">>>>, "app")}

Bases == [w \in {"/cal", "/sh", "/run"} |-> CASE w = "/cal" -> "cal" [] w = "/sh" -> "sh" [] OTHER -> "run"]
Words == {"", "cal", "sh", "run", "py", "edit", "app"}
Beginnings == [w \in Words |-> {"", w}]
Customs == <<"edit">> :> <<"ed">>
=============================================================================

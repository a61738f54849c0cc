---------------------------- MODULE MCOnboarding ----------------------------
(* Texts of a few bytes around every field's width, tokens that the two      *)
(* decoders read differently, and rectangles at and beyond the panel's edges. *)
EXTENDS Onboarding

Symbols ==
  {"n", "d", "e", "p", "t", " ", "other"} \cup HexDigit \cup DOMAIN Escape

Widths == [f \in {"ssid", "password", "name", "token", "driver_ssid", "driver_password",
                  "body", "header", "query_value"} |->
             CASE f = "driver_ssid" -> 2 [] f = "name" -> 2 [] f = "password" -> 4
               [] f = "body" -> 27 [] f = "header" -> 4 [] f = "query_value" -> 6
               [] OTHER -> 3]

F(ssid, password, name, token) ==
  [ssid |-> ssid, password |-> password, name |-> name, token |-> token]

Typed == {
  F(<<"n">>, <<>>, <<"d">>, <<"t">>),
  F(<<"n">>, <<"+", "p">>, <<"e">>, <<>>),
  F(<<"%", "2">>, <<"c3", "a9">>, <<"d">>, <<"%", "5", "5">>),
  F(<<"n", " ">>, <<"p", "p", "p", "p">>, <<"&", "e", "e">>, <<" ">>),
  F(<<"n", "n", "n">>, <<"p">>, <<"d">>, <<"t", "t", "t", "t">>),
  F(<<"n">>, <<"p">>, <<>>, <<"t">>),
  F(<<"+", "&">>, <<"&", "&", "&">>, <<"%", "&">>, <<"%", "%">>)}

Reachable ==
  {[ssid |-> Cut(f.ssid, 2), password |-> Cut(f.password, 3)] : f \in Typed}

NoArgs == [x |-> Absent, y |-> Absent, w |-> Absent, h |-> Absent, size |-> Absent,
           lines |-> NoLines, commit |-> TRUE, mode |-> "partial", background |-> "transparent"]

R(target, via, token, args) == [target |-> target, via |-> via, token |-> token, args |-> args]

Tokens == {<<"t">>, <<" ">>, <<"%", "5", "5">>, <<"t", "t", "t">>,
           <<"t", "t", "t", "t">>, <<"t", "t", "t", "t", "t">>}

Plainly ==
  {R(target, "none", NoText, NoArgs) : target \in {"", "nothing", "get_config"}}
  \cup {R("get_config", via, token, NoArgs) : via \in {"header", "query", "raw_query"}, token \in Tokens}
  \cup {R(target, "header", <<"t">>, NoArgs) :
          target \in {"", "nothing", "reset_network", "disconnect_wifi", "connect_wifi"} \cup Drawing}

\* on the panel, over its edges, beyond them, empty, and with edges that wrap
Boxes == {<<0, 0, 40, 32>>, <<3, 5, 6, 1>>, <<8, 31, 8, 40>>, <<39, 30, 1, 1>>, <<39, 0, 60, 2>>,
          <<40, 0, 8, 8>>, <<0, 32, 8, 8>>, <<7, 3, 0, 4>>, <<3, 20, 4, 250>>, <<20, 3, 250, 4>>}

Shapes ==
  {R(target, "header", <<"t">>,
     [NoArgs EXCEPT !.x = b[1], !.y = b[2], !.w = b[3], !.h = b[4], !.commit = commit]) :
     target \in {"clear_region", "refresh_display"}, b \in Boxes, commit \in BOOLEAN}

Words ==
  {R("render_text", "header", <<"t">>,
     [NoArgs EXCEPT !.x = x, !.size = size, !.lines = lines, !.background = background]) :
     x \in {Absent, 3, 39, 200}, size \in {Absent, 12},
     lines \in {<<1>>, <<3, 1>>}, background \in {"transparent", "black"}}
  \cup {R("render_text", "header", <<"t">>, [NoArgs EXCEPT !.y = 3, !.lines = <<0, 2>>, !.mode = "full"])}

ClientRequests == Plainly \cup Shapes \cup Words
=============================================================================

------------------------------- MODULE MCBoot -------------------------------
(* Up to three tags of sizes that need rounding or not, and archives whose *)
(* names and texts end at every place of a word.  Paths are cut behind four*)
(* parts of a name and names of fonts behind two.                          *)
EXTENDS Boot

Tag(type, size, value) == [type |-> type, size |-> size, value |-> value]
MCTag == {Tag(18, 8, 0), Tag(1, 13, 0), Tag(8, 38, 100), Tag(8, 32, 0),
          Tag(3, 17, "archive"), Tag(3, 24, "other")}
MCTagLists == {Append(ts, Tag(0, 8, 0)) : ts \in UNION {[1 .. n -> MCTag] : n \in 0 .. 3}}

File(name, text) == [name |-> name, text |-> text]
Fonts == {<<>>, <<File(<<"fonts/", "A">>, <<"glyphs">>)>>,
          <<File(<<"/", "fonts/", "A">>, <<"glyphs", "glyphs", "glyphs", "glyphs">>)>>,
          <<File(<<".", "/", "fonts/", "A">>, <<>>), File(<<"fonts/", "F">>, <<"glyphs">>)>>,
          <<File(<<"fonts/", "A">>, <<"glyphs">>), File(<<".", "/", "fonts/", "A">>, <<"glyphs">>)>>,
          <<File(<<"fonts/", "B", "B", "A", "B">>, <<"x">>), File(<<"fonts/", "B", "B">>, <<"glyphs">>),
            File(<<"fonts/", "B", "B", "A">>, <<"x", "x">>)>>}
Cfgs == {<<"FONT=", "A", "NL">>, <<"FONT=", "A">>, <<"note", "NL", "FONT=", "A">>,
         <<"note", "FONT=", "A", "CR", "NL">>, <<"FONT=", "B", "B", "NL">>,
         <<"FONT=", "B", "B", "A", "NL">>, <<"FONT=", "NL", "A">>, <<"FONT=", "B", "NL", "FONT=", "A", "NL">>,
         <<>>, <<"note", "note", "note", "NL">>}
Names == {CfgName, <<".", "/">> \o CfgName}
Trailer == <<File(<<"TRAILER!!!">>, <<>>)>>

MCArchives ==
  {fs \o Trailer : fs \in Fonts}
  \cup {fs \o <<File(name, cfg)>> \o Trailer : fs \in Fonts, name \in Names, cfg \in Cfgs}
  \cup {<<File(<<".">>, <<>>), File(name, cfg)>> \o fs \o Trailer
          : fs \in Fonts, name \in Names, cfg \in Cfgs}
  \cup {<<File(<<"a">>, <<"x">>)>> \o Trailer \o fs : fs \in Fonts}

(* Every list of tags with one archive, every archive with one list.       *)
MCLoads ==
  {[tags |-> ts, archive |-> <<File(CfgName, <<"FONT=", "A", "NL">>), File(<<"fonts/", "A">>, <<"glyphs">>)>> \o Trailer] : ts \in MCTagLists}
  \cup {[tags |-> <<Tag(3, 17, "archive"), Tag(0, 8, 0)>>, archive |-> es] : es \in MCArchives}
=============================================================================

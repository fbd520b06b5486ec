------------------------------- MODULE MCSmoke -------------------------------
(***************************************************************************)
(* Directories of two cases, on two targets: what a CLI prints is a row, a *)
(* row behind a prompt or before one, rows with chatter, a header, an      *)
(* error or an empty line between them, or nothing.                        *)
(***************************************************************************)
EXTENDS SmokeRun

MCExpectations ==
    {<< >>, << <<"5">> >>, << <<"5", " ">>, << >> >>, << <<"5">>, <<"7">> >>,
     << <<"5">>, << >>, <<"7">> >>, << <<"text">> >>}

MCOutputs ==
    {<< >>, << <<"5">>, <<" ">> >>, << <<"D>", " ", "5">>, <<"D>", " ">> >>,
     << <<"5", " ", "D>">> >>,
     << <<"[shim-", "text">>, <<"text">>, <<"5">> >>,
     << <<"5">>, <<"text">>, <<"7">>, << >> >>,
     << <<"D>", " ", "[shim-">>, <<"text">> >>, << <<"5">>, << >>, <<"7">> >>}
=============================================================================

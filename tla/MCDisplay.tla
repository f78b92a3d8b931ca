----------------------------- MODULE MCDisplay -----------------------------
(***************************************************************************)
(* Model-checking instance of Display.                                     *)
(***************************************************************************)
EXTENDS Display
MCPrograms == {{"flip", "wait", "menu"},
               {"acquire", "menu"},
               {"flip", "acquire", "wait"},
               {"flip", "wait", "vsync", "mode", "init"},
               {"single0", "single1", "overlay"},
               {"single0", "bulk", "overlay", "menu"}}
GpuOnly == {{"acquire", "wait"}}
=============================================================================

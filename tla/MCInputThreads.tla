--------------------------- MODULE MCInputThreads ---------------------------
EXTENDS InputThreads

Input(m, d, lines) == [mode |-> m, device |-> d, lines |-> lines]

\* More lines than the queue holds; on a terminal, a session, Ctrl+D, the line
\* that reconnects and a line of the next session.
SmallInputs ==
    { Input("console", "tty", <<1, 0, 2, 3>>),
      Input("console", "regular", <<1, 2>>),
      Input("stdin", "tty", <<1, 0, 2>>),
      Input("stdin", "pipe", <<1, 2>>),
      Input("stdin", "regular", <<>>),
      Input("stdin", "regular", <<1, 2, 3>>),
      Input("file", "regular", <<>>),
      Input("file", "regular", <<1, 2, 3>>) }

\* An empty input file: the end of the file meets the connect hook.
EmptyFile == {Input("file", "regular", <<>>)}

\* A line and the end of a pipe.
OnePipe == {Input("stdin", "pipe", <<1>>)}
=============================================================================

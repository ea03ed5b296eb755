--------------------------- MODULE MCLessonWorkers ---------------------------
EXTENDS LessonWorkers

\* The cards a child may produce: a plain card, an overview, too many.
MCOutputs == {{"a"}, {"o"}, {"a", "o"}}
MCTasks == Positions \X Wrappers

\* A topic owns nothing, a small or a larger paragraph, or an oversized one.
MCSizes == {<<>>, <<1>>, <<2>>, <<4, 1>>}
=============================================================================

\* One editor at a time: two dialogs that grow three times, are deleted, and made again
\* after the file was read.  Prompts that are their own name, that are not, and
\* that are too long to send; two short prompts fit together with one answer, not
\* with two.
CONSTANTS
    Editor = {e1}
    MaxId = 1
    MaxSize = 3
    MaxQueue = 3
    PromptTokens = {1, 2, 9}
    ShortPrompt = 1
    UserActs = {"cancel", "clear", "rename"}
    MaxTokens = 5
    Reserved = 1
    MaxHistory = 4
    MaxPrompts = 2
    MaxAnswer = 1
SPECIFICATION ChatSpec
INVARIANTS StoreKept AnswerOfThisPrompt
PROPERTIES ButtonReleased
CHECK_DEADLOCK FALSE
